---- MODULE Spec2Model ----
(***************************************************************************)
(* Model of nitter-rss-proxy.                                              *)
(*                                                                         *)
(*   Spec          handler.ServeHTTP of main.go: concurrent requests over  *)
(*                 the static instance list and the rotation cursor.       *)
(*   SpecRefresh   resetHostOnce of pkg/provider/wiki.go with its row      *)
(*                 goroutines.                                             *)
(*   SpecWiki      githubwikiProvider in use: refreshes publishing their   *)
(*                 result, the re-probe loop (pingHosts) and callers of    *)
(*                 GetActiveInstances and GetAllInstances.                 *)
(***************************************************************************)
EXTENDS Integers, Sequences, FiniteSets, TLC

(***************************************************************************)
(* Bounds.                                                                 *)
(***************************************************************************)
MaxInstances == 3
MaxRequests == 2
MaxRows == 2        \* rows the directory page can have
MaxRefreshes == 2   \* calls of resetHostOnce, the one of Init included
MaxPings == 1       \* passes of the pingHosts loop
MaxUrls == 2        \* distinct instance URLs
MaxDelay == 0       \* largest latency measured, in ms
MaxReaders == 1     \* callers of the provider's Get methods
MaxFanRows == 31    \* rows of the page when the fan-out is counted
MaxPathParts == 3   \* pieces a request path is put together from

Requests == 1..MaxRequests

(***************************************************************************)
(* HTTP status codes used by ServeHTTP (net/http constants).               *)
(***************************************************************************)
StatusOK == 200
StatusBadRequest == 400
StatusNotFound == 404
StatusMethodNotAllowed == 405
StatusInternalServerError == 500

Methods == {"GET", "POST"}

\* Ways handler.fetch returns an error: client.Get fails, the status is not
\* 200, ioutil.ReadAll fails.
FetchErrors == {"transport", "status", "read"}

\* Ways handler.rewrite ends.  "parseErr": an error returned with nothing
\* written to w (gofeed parse error, rewriteContent error, feeds.ToXML error,
\* unknown format).  "writeErr": io.WriteString, enc.Encode or feed.WriteRss
\* returned an error after part of the output had gone to w.  "ok": the feed
\* was written.
RewriteOutcomes == {"parseErr", "writeErr", "ok"}

VARIABLES
  instances,  \* hnd.instances, as the sequence of the instances' identities
  cycle,      \* hnd.opts.cycle
  start,      \* hnd.start, the rotation cursor
  mu,         \* hnd.mu: 0 when free, else the request holding it
  pc,         \* position of each request in ServeHTTP
  req,        \* the request: method and class of path
  lstart,     \* ServeHTTP's local variable start
  i,          \* ServeHTTP's loop counter
  w,          \* the ResponseWriter: status sent (0: none) and chunks written
  attempts,   \* history: the instances fetched from, with each result
  reads       \* history: reads of hnd.start since its last write

hvars == <<instances, cycle, start, mu, pc, req, lstart, i, w, attempts, reads>>

VARIABLES
  hosts,     \* p.hosts, the slice header: backing array and length
  heap,      \* the backing arrays, by the refresh that built them (0: nil)
  gen,       \* calls of resetHostOnce so far
  rpc,       \* position of resetHostOnce
  nrows,     \* len(nodes)
  spawned,   \* rows for which the loop has started a goroutine
  gpc,       \* position of each row's goroutine
  node,      \* what node2host has extracted from each row
  wg,        \* the WaitGroup counter
  ch,        \* number of values in the channel ch
  rw,        \* resetHostOnce's local rw: 0 free, else the holder
  started,   \* row goroutines in node2host, before pingHost (by number)
  probing,   \* row goroutines in pingHost (by number)
  leaving,   \* row goroutines past wg.Done(), before <-ch (by number)
  crashed,   \* a panic has ended the process
  ppc,       \* position of pingHosts
  phdr,      \* the slice header pingHosts ranges over
  pidx,      \* pingHosts' position in it
  pres,      \* the result of the pingHost call in pingHosts
  pings,     \* passes of pingHosts so far
  rdpc,      \* position of each caller
  rdhdr,     \* the slice header a Get method ranges over
  rdidx,     \* its position in it
  rdseen,    \* history: the hosts GetActiveInstances visited, as it read them
  rdactive,  \* result of GetActiveInstances
  rdall,     \* result of GetAllInstances
  rdlist     \* the instance list the caller uses

refreshvars == <<gen, rpc, nrows, spawned, gpc, node, wg, ch, rw>>
fanvars == <<started, probing, leaving>>
pingvars == <<ppc, phdr, pidx, pres, pings>>
readvars == <<rdpc, rdhdr, rdidx, rdseen, rdactive, rdall, rdlist>>
pvars == <<hosts, heap, crashed, refreshvars, fanvars, pingvars, readvars>>

VARIABLES
  ctxDone,   \* req.Context() of each request is done (cancelled or expired)
  silent     \* the instances whose server accepts a request and never answers

envvars == <<ctxDone, silent>>

VARIABLES
  input,     \* the argument of the function under study
  called,    \* the function that was applied to it ("": none yet)
  ret        \* what it returned

fnvars == <<input, called, ret>>

vars == <<hvars, pvars, envvars, fnvars>>

NoReq == [method |-> "", path |-> <<>>]
NoResponse == [status |-> 0, body |-> <<>>]

\* http.Error and the first Write on a ResponseWriter: the status line is
\* sent once; a later WriteHeader is ignored and the bytes are appended.
WriteTo(resp, code, chunk) ==
  [status |-> IF resp.status = 0 THEN code ELSE resp.status,
   body |-> Append(resp.body, chunk)]

Rows == 1..MaxRows
Readers == 1..MaxReaders
Urls == 1..MaxUrls

\* ch := make(chan bool, 30)
ChanCap == 30

NilHeader == [ptr |-> 0, len |-> 0]
NoPing == [ok |-> FALSE, delay |-> 0]

\* NewGithubWikiProvider: hosts is nil and nothing runs yet.
ProviderInit ==
  /\ hosts = NilHeader
  /\ heap = [g \in 0..MaxRefreshes |-> <<>>]
  /\ crashed = FALSE
  /\ gen = 0
  /\ rpc = "sleep"
  /\ nrows = 0
  /\ spawned = 0
  /\ gpc = [n \in Rows |-> "none"]
  /\ node = [n \in Rows |-> [url |-> 0, status |-> FALSE, delay |-> 0, ping |-> "none"]]
  /\ wg = 0
  /\ ch = 0
  /\ rw = 0
  /\ started = 0
  /\ probing = 0
  /\ leaving = 0
  /\ ppc = "sleep"
  /\ phdr = NilHeader
  /\ pidx = 0
  /\ pres = NoPing
  /\ pings = 0
  /\ rdpc = [r \in Readers |-> "idle"]
  /\ rdhdr = [r \in Readers |-> NilHeader]
  /\ rdidx = [r \in Readers |-> 0]
  /\ rdseen = [r \in Readers |-> <<>>]
  /\ rdactive = [r \in Readers |-> <<>>]
  /\ rdall = [r \in Readers |-> <<>>]
  /\ rdlist = [r \in Readers |-> <<>>]

\* newHandler: the non-empty comma-separated segments, in order; an empty
\* list is a construction error, so a handler has at least one instance.
HandlerInit ==
  /\ \E n \in 1..MaxInstances : instances = [k \in 1..n |-> k]
  /\ cycle \in BOOLEAN
  /\ start = 0
  /\ mu = 0
  /\ pc = [r \in Requests |-> "idle"]
  /\ req = [r \in Requests |-> NoReq]
  /\ lstart = [r \in Requests |-> 0]
  /\ i = [r \in Requests |-> 0]
  /\ w = [r \in Requests |-> NoResponse]
  /\ attempts = [r \in Requests |-> <<>>]
  /\ reads = 0

\* No request is cancelled and every remote answers.
EnvInit ==
  /\ ctxDone = [r \in Requests |-> FALSE]
  /\ silent = {}

\* No function is under study.
FnInit ==
  /\ input = <<>>
  /\ called = ""
  /\ ret = <<>>

Init == HandlerInit /\ ProviderInit /\ EnvInit /\ FnInit

(***************************************************************************)
(* Strings are sequences of characters.  Regular expressions of Go's       *)
(* regexp package (leftmost match, alternatives and repetitions tried in   *)
(* the order of a backtracking search) are trees of the nodes below.       *)
(***************************************************************************)
Lower ==
  {"a", "b", "c", "d", "e", "f", "g", "h", "i", "j", "k", "l", "m", "n",
   "o", "p", "q", "r", "s", "t", "u", "v", "w", "x", "y", "z"}
Upper ==
  {"A", "B", "C", "D", "E", "F", "G", "H", "I", "J", "K", "L", "M", "N",
   "O", "P", "Q", "R", "S", "T", "U", "V", "W", "X", "Y", "Z"}
Digit ==
  {"0", "1", "2", "3", "4", "5", "6", "7", "8", "9"}

\* \w
WordChar == Lower \cup Upper \cup Digit \cup {"_"}

Lit(str) == [t |-> "lit", s |-> str]       \* the string str
Cls(S) == [t |-> "cls", s |-> S]           \* one character of the class S
Cat(l) == [t |-> "cat", l |-> l]           \* the nodes of l, one after the other
Alt(l) == [t |-> "alt", l |-> l]           \* a|b|..., the first that fits
Rep(r, least) == [t |-> "rep", r |-> r, least |-> least]  \* r{least,}, greedy
Opt(r) == [t |-> "opt", r |-> r]           \* r?
Bol == [t |-> "bol"]                       \* ^
Eol == [t |-> "eol"]                       \* $
Wb == [t |-> "wb"]                         \* \b

\* a, then the elements of b that a lacks.
AddNew(a, b) == a \o SelectSeq(b, LAMBDA x : \A k \in DOMAIN a : a[k] # x)

IsWordAt(s, p) == p >= 1 /\ p <= Len(s) /\ s[p] \in WordChar

RECURSIVE Ends(_, _, _)
RECURSIVE EndsBetween(_, _, _, _, _)
RECURSIVE CatEnds(_, _, _, _)
RECURSIVE AltEnds(_, _, _, _)
RECURSIVE RepEnds(_, _, _, _)
RECURSIVE RepFrom(_, _, _, _, _)

\* The positions at which a match of re that starts at position p of s can
\* end, in the order in which the search tries them.  A position is the
\* index of the next character.
Ends(re, s, p) ==
  CASE re.t = "lit" ->
         IF p + Len(re.s) - 1 <= Len(s) /\ SubSeq(s, p, p + Len(re.s) - 1) = re.s
           THEN <<p + Len(re.s)>> ELSE <<>>
    [] re.t = "cls" ->
         IF p <= Len(s) /\ s[p] \in re.s THEN <<p + 1>> ELSE <<>>
    [] re.t = "cat" -> CatEnds(re.l, 1, s, <<p>>)
    [] re.t = "alt" -> AltEnds(re.l, 1, s, p)
    [] re.t = "rep" -> RepEnds(re.r, re.least, s, p)
    [] re.t = "opt" -> AddNew(Ends(re.r, s, p), <<p>>)
    [] re.t = "bol" -> IF p = 1 THEN <<p>> ELSE <<>>
    [] re.t = "eol" -> IF p = Len(s) + 1 THEN <<p>> ELSE <<>>
    [] re.t = "wb" -> IF IsWordAt(s, p - 1) # IsWordAt(s, p) THEN <<p>> ELSE <<>>

\* The ends of re from each of the positions ps[lo..hi], in order.
EndsBetween(re, s, ps, lo, hi) ==
  IF lo > hi THEN <<>>
  ELSE IF lo = hi THEN Ends(re, s, ps[lo])
  ELSE LET mid == (lo + hi) \div 2
       IN AddNew(EndsBetween(re, s, ps, lo, mid),
                 EndsBetween(re, s, ps, mid + 1, hi))

\* The ends of re from each of the positions ps[j..], in order.
EndsFrom(re, s, ps, j) == EndsBetween(re, s, ps, j, Len(ps))

CatEnds(l, k, s, ps) ==
  IF k > Len(l) THEN ps ELSE CatEnds(l, k + 1, s, EndsFrom(l[k], s, ps, 1))

AltEnds(l, k, s, p) ==
  IF k > Len(l) THEN <<>>
  ELSE AddNew(Ends(l[k], s, p), AltEnds(l, k + 1, s, p))

\* The end of the longest run of characters of the class S from p on.
RunEnd(S, s, p) ==
  CHOOSE e \in p..(Len(s) + 1) :
    /\ \A k \in p..(e - 1) : s[k] \in S
    /\ e = Len(s) + 1 \/ s[e] \notin S

\* Greedy repetition: one more r first, stopping here last.  Of a class,
\* that is the whole run first, then one character less at a time.
RepEnds(r, least, s, p) ==
  IF r.t = "cls"
  THEN LET e == RunEnd(r.s, s, p)
       IN [j \in 1..(e - p - least + 1) |-> e - j + 1]
  ELSE LET further == SelectSeq(Ends(r, s, p), LAMBDA e : e > p)
           more == RepFrom(r, IF least > 0 THEN least - 1 ELSE 0, s,
                           further, 1)
       IN IF least = 0 THEN AddNew(more, <<p>>) ELSE more

RepFrom(r, least, s, ps, j) ==
  IF j > Len(ps) THEN <<>>
  ELSE AddNew(RepEnds(r, least, s, ps[j]), RepFrom(r, least, s, ps, j + 1))

RECURSIVE MatchParts(_, _, _, _)
RECURSIVE FirstOk(_, _, _, _, _, _)

\* A compiled expression is the sequence of its top-level parts.  The match
\* of parts[k..] at position p of s that the search finds first, as the
\* positions <<p, end of part k, ..., end of the last part>>; <<>> if none.
MatchParts(parts, k, s, p) ==
  IF k > Len(parts) THEN <<p>>
  ELSE FirstOk(parts, k, s, p, Ends(parts[k], s, p), 1)

\* The first of the ends es[j..] of part k from which the parts after k
\* match.
FirstOk(parts, k, s, p, es, j) ==
  LET rest == [m \in j..Len(es) |-> MatchParts(parts, k + 1, s, es[m])]
      ok == {m \in j..Len(es) : rest[m] # <<>>}
  IN IF ok = {} THEN <<>>
     ELSE <<p>> \o rest[CHOOSE m \in ok : \A n \in ok : m <= n]

\* The leftmost match of parts in s at or after position q.
Find(parts, s, q) ==
  LET MatchesAt(k) == MatchParts(parts, 1, s, k) # <<>>
  IN IF \E k \in q..(Len(s) + 1) : MatchesAt(k)
     THEN MatchParts(parts, 1, s,
                     CHOOSE k \in q..(Len(s) + 1) :
                       /\ MatchesAt(k)
                       /\ \A j \in q..(k - 1) : ~MatchesAt(j))
     ELSE <<>>

\* (*Regexp).FindString: the text of the leftmost match, "" without one.
FindString(parts, s) ==
  LET b == Find(parts, s, 1)
  IN IF b = <<>> THEN <<>> ELSE SubSeq(s, b[1], b[Len(b)] - 1)

\* strings.HasSuffix
HasSuffix(s, suffix) ==
  /\ Len(suffix) <= Len(s)
  /\ SubSeq(s, Len(s) - Len(suffix) + 1, Len(s)) = suffix

(***************************************************************************)
(* Request paths.                                                          *)
(***************************************************************************)
FaviconIco == <<"f", "a", "v", "i", "c", "o", "n", ".", "i", "c", "o">>
SlashMedia == <<"/", "m", "e", "d", "i", "a">>
SlashSearch == <<"/", "s", "e", "a", "r", "c", "h">>
SlashWithReplies ==
  <<"/", "w", "i", "t", "h", "_", "r", "e", "p", "l", "i", "e", "s">>

\* userRegexp: [_a-zA-Z0-9,]+(/(media|search|with_replies))?$
userRegexp ==
  <<Rep(Cls(WordChar \cup {","}), 1),
    Opt(Cat(<<Lit(<<"/">>),
              Alt(<<Lit(Tail(SlashMedia)), Lit(Tail(SlashSearch)),
                    Lit(Tail(SlashWithReplies))>>)>>)),
    Eol>>

\* The pieces request paths are put together from.
PathParts ==
  <<<<"/">>, <<"a">>, <<",">>, <<"-">>, SlashMedia, SlashWithReplies,
    FaviconIco>>

RECURSIVE Joined(_, _)
\* The strings made of at most n pieces of parts.
Joined(parts, n) ==
  IF n = 0 THEN {<<>>}
  ELSE LET shorter == Joined(parts, n - 1)
       IN shorter \cup {q \o parts[k] : q \in shorter, k \in DOMAIN parts}

\* req.URL.Path of a request to the server starts with a slash.
Paths == {<<"/">> \o q : q \in Joined(PathParts, MaxPathParts)}

\* One path of each kind: a favicon request, a path without a user, a user.
SamplePaths ==
  {<<"/">> \o FaviconIco, <<"/", "-">>, <<"/", "a">>}

IsFaviconNever(p) == FALSE

\* strings.HasSuffix(req.URL.Path, "favicon.ico")
IsFavicon(p) == HasSuffix(p, FaviconIco)

\* The checks at the head of ServeHTTP, in their order: the status of the
\* error the request is answered with, 0 when it passes them all.
Verdict(m, p) ==
  IF m # "GET" THEN StatusMethodNotAllowed
  ELSE IF IsFavicon(p) THEN StatusNotFound
  ELSE IF FindString(userRegexp, p) = <<>> THEN StatusBadRequest
  ELSE 0

AfterErrorFallThrough == "readStart"

\* The return that follows each http.Error of the checks.
AfterError == "done"

\* ServeHTTP up to the user check, for a request of method m and path p.
Receive(r, m, p) ==
  /\ pc[r] = "idle"
  /\ req' = [req EXCEPT ![r] = [method |-> m, path |-> p]]
  /\ IF Verdict(m, p) # 0
       THEN /\ w' = [w EXCEPT ![r] = WriteTo(@, Verdict(m, p), "error")]
            /\ pc' = [pc EXCEPT ![r] = AfterError]
       ELSE /\ w' = w
            /\ pc' = [pc EXCEPT ![r] = "readStart"]
  /\ UNCHANGED <<instances, cycle, start, mu, lstart, i, attempts, reads,
                 pvars, envvars, fnvars>>

\* A request arrives, with one of the sample paths.
Validate(r) ==
  \E m \in Methods, p \in SamplePaths : Receive(r, m, p)

\* A request arrives, with any path.
ValidateAny(r) ==
  \E m \in Methods, p \in Paths : Receive(r, m, p)

\* The read followed by the advance whatever opts.cycle is.
ReadStartAlwaysCycles(r) ==
  /\ pc[r] = "readStart"
  /\ lstart' = [lstart EXCEPT ![r] = start]
  /\ reads' = reads + 1
  /\ pc' = [pc EXCEPT ![r] = "lock"]
  /\ UNCHANGED <<instances, cycle, start, mu, req, i, w, attempts, pvars, envvars, fnvars>>

\* start := hnd.start, read without holding hnd.mu.
ReadStart(r) ==
  /\ pc[r] = "readStart"
  /\ lstart' = [lstart EXCEPT ![r] = start]
  /\ reads' = reads + 1
  /\ pc' = [pc EXCEPT ![r] = IF cycle THEN "lock" ELSE "loop"]
  /\ UNCHANGED <<instances, cycle, start, mu, req, i, w, attempts, pvars, envvars, fnvars>>

\* hnd.mu.Lock()
Lock(r) ==
  /\ pc[r] = "lock"
  /\ mu = 0
  /\ mu' = r
  /\ pc' = [pc EXCEPT ![r] = "advance"]
  /\ UNCHANGED <<instances, cycle, start, req, lstart, i, w, attempts, reads, pvars, envvars, fnvars>>

\* The advance without the wrap.
NextStartNoWrap(s, n) == s + 1

NextStart(s, n) == (s + 1) % n

\* The advance computed from the value the request read before it took
\* the lock.
AdvanceFromLocal(r) ==
  /\ pc[r] = "advance"
  /\ mu = r
  /\ start' = NextStart(lstart[r], Len(instances))
  /\ reads' = 0
  /\ mu' = 0
  /\ pc' = [pc EXCEPT ![r] = "loop"]
  /\ UNCHANGED <<instances, cycle, req, lstart, i, w, attempts, pvars, envvars, fnvars>>

\* The advance without hnd.mu.Unlock().
AdvanceNoUnlock(r) ==
  /\ pc[r] = "advance"
  /\ mu = r
  /\ start' = NextStart(start, Len(instances))
  /\ reads' = 0
  /\ pc' = [pc EXCEPT ![r] = "loop"]
  /\ UNCHANGED <<instances, cycle, mu, req, lstart, i, w, attempts, pvars, envvars, fnvars>>

\* hnd.start = (hnd.start + 1) % len(hnd.instances); hnd.mu.Unlock()
Advance(r) ==
  /\ pc[r] = "advance"
  /\ mu = r
  /\ start' = NextStart(start, Len(instances))
  /\ reads' = 0
  /\ mu' = 0
  /\ pc' = [pc EXCEPT ![r] = "loop"]
  /\ UNCHANGED <<instances, cycle, req, lstart, i, w, attempts, pvars, envvars, fnvars>>

LoopCondOffByOne(k, n) == k <= n

\* The loop condition i < len(hnd.instances).
LoopCond(k, n) == k < n

InstanceIndexNoRotation(s, k, n) == (k % n) + 1

\* in := hnd.instances[(start+i)%len(hnd.instances)], as a 1-based position.
InstanceIndex(s, k, n) == ((s + k) % n) + 1

\* fetch with u as another name of the instance: u.Path = ... changes the
\* instance of the list.
AfterFetchAliased(l, k) == [l EXCEPT ![k] = -@]

\* hnd.instances after hnd.fetch(in, user) for the instance at position k:
\* u := *instance copies the URL and u.Path is set in the copy.
AfterFetch(l, k) == l

Attempt(r, res) ==
  [inst |-> instances[InstanceIndex(lstart[r], i[r], Len(instances))],
   res |-> res]

\* -timeout, in seconds (the flag's default); newHandler makes it the
\* Timeout of hnd.client.
Timeout == 10

\* hnd.client.Get returns: the instance answers or refuses, or the client's
\* Timeout, when one is set, ends the call with an error.
FetchReturns(in) == in \notin silent \/ Timeout > 0

\* One iteration whose hnd.fetch fails: log and continue.
FetchFail(r) ==
  /\ pc[r] = "loop"
  /\ LoopCond(i[r], Len(instances))
  /\ FetchReturns(Attempt(r, "fetchErr").inst)
  /\ \E e \in FetchErrors :
       attempts' = [attempts EXCEPT ![r] = Append(@, Attempt(r, "fetchErr"))]
  /\ i' = [i EXCEPT ![r] = @ + 1]
  /\ instances' = AfterFetch(instances,
                             InstanceIndex(lstart[r], i[r], Len(instances)))
  /\ UNCHANGED <<cycle, start, mu, pc, req, lstart, w, reads, pvars, envvars, fnvars>>

\* What hnd.rewrite has written to w when it returns with outcome o: nothing
\* on an early error, the feed on success, and on a failed write the part of
\* it that was accepted before the error.
RewriteWrites(resp, o) ==
  CASE o = "ok" -> WriteTo(resp, StatusOK, "feed")
    [] o = "writeErr" -> WriteTo(resp, StatusOK, "partial")
    [] OTHER -> resp

\* One iteration whose hnd.fetch succeeds, followed by hnd.rewrite: return on
\* success, log and continue on error.
FetchRewrite(r) ==
  /\ pc[r] = "loop"
  /\ LoopCond(i[r], Len(instances))
  /\ Attempt(r, "ok").inst \notin silent
  /\ \E o \in RewriteOutcomes :
       /\ attempts' = [attempts EXCEPT ![r] = Append(@, Attempt(r, o))]
       /\ w' = [w EXCEPT ![r] = RewriteWrites(@, o)]
       /\ IF o = "ok"
            THEN pc' = [pc EXCEPT ![r] = "done"] /\ i' = i
            ELSE pc' = pc /\ i' = [i EXCEPT ![r] = @ + 1]
  /\ instances' = AfterFetch(instances,
                             InstanceIndex(lstart[r], i[r], Len(instances)))
  /\ UNCHANGED <<cycle, start, mu, req, lstart, reads, pvars, envvars, fnvars>>

\* The loop ends without a success:
\* http.Error(w, "Couldn't get feed from any instances", 500).
Exhausted(r) ==
  /\ pc[r] = "loop"
  /\ ~LoopCond(i[r], Len(instances))
  /\ w' = [w EXCEPT ![r] = WriteTo(@, StatusInternalServerError, "error")]
  /\ pc' = [pc EXCEPT ![r] = "done"]
  /\ UNCHANGED <<instances, cycle, start, mu, req, lstart, i, attempts, reads, pvars, envvars, fnvars>>

Next ==
  \E r \in Requests :
    \/ Validate(r)
    \/ ReadStart(r)
    \/ Lock(r)
    \/ Advance(r)
    \/ FetchFail(r)
    \/ FetchRewrite(r)
    \/ Exhausted(r)

Spec == Init /\ [][Next]_vars

\* A request is being served: ServeHTTP has accepted it and has not returned.
Serving(r) == pc[r] \in {"readStart", "lock", "advance", "loop"}

\* The client goes away while its request is served: net/http cancels
\* req.Context().  ServeHTTP and fetch never look at it (hnd.client.Get takes
\* no context), so no position of the handler changes.
Cancel(r) ==
  /\ Serving(r)
  /\ ~ctxDone[r]
  /\ ctxDone' = [ctxDone EXCEPT ![r] = TRUE]
  /\ UNCHANGED <<hvars, pvars, silent, fnvars>>

\* opts.timeout has gone by since the request came in.  The only use of
\* opts.timeout is http.Client.Timeout, which bounds each Get on its own, so
\* the time is up as soon as one fetch has run into its timeout.
Expire(r) ==
  /\ Serving(r)
  /\ ~ctxDone[r]
  /\ attempts[r] # <<>>
  /\ attempts[r][Len(attempts[r])].res = "fetchErr"
  /\ ctxDone' = [ctxDone EXCEPT ![r] = TRUE]
  /\ UNCHANGED <<hvars, pvars, silent, fnvars>>

NextDeadline ==
  \/ Next
  \/ \E r \in Requests :
       \/ Cancel(r)
       \/ Expire(r)

\* ServeHTTP with requests that are cancelled or outlive the timeout.
SpecDeadline == Init /\ [][NextDeadline]_vars

\* One request at a time is enough to see what a path leads to.
PathRequests == {r \in Requests : r = 1}

NextPaths ==
  \E r \in PathRequests :
    \/ ValidateAny(r)
    \/ ReadStart(r)
    \/ Lock(r)
    \/ Advance(r)
    \/ FetchFail(r)
    \/ FetchRewrite(r)
    \/ Exhausted(r)

\* ServeHTTP over the request paths.
SpecPaths == Init /\ [][NextPaths]_vars

(***************************************************************************)
(* githubwikiProvider (pkg/provider/wiki.go).                              *)
(***************************************************************************)

\* Init has returned from its call of resetHostOnce: monitorHosts has been
\* started and the provider is in use.
Inited == gen >= 2 \/ (gen = 1 /\ rpc = "sleep")

\* Ways resetHostOnce returns before building a list: the Get of the
\* directory page fails, charset.NewReader fails, html.Parse fails,
\* htmlquery.QueryAll fails, or the query finds no rows.
ResetErrors == {"get", "charset", "parse", "query", "empty"}

\* What node2host finds in a row.  "noStatusCell": no td[2].
\* "emptyStatusCell", "emptyUrlCell": the cell has no child node, so
\* FirstChild is nil.  "noHref": the child has no href.  "badUrl": url.Parse
\* fails.  "host": a URL and a status glyph.
RowKinds ==
  {"noStatusCell", "emptyStatusCell", "emptyUrlCell", "noHref", "badUrl",
   "host"}

\* pingHost: (0, err) when RoundTrip fails, else the milliseconds elapsed.
PingResults ==
  {NoPing} \cup {[ok |-> TRUE, delay |-> d] : d \in 0..MaxDelay}

\* The hostWithStatus of an extracted row.
Host(e) == [url |-> e.url, status |-> e.status, delay |-> e.delay]

\* The slice of the header h, element k; a header whose length exceeds its
\* array reads outside the array.
InBounds(h, k) == k <= Len(heap[h.ptr])

NoNode == [url |-> 0, status |-> FALSE, delay |-> 0, ping |-> "none"]

\* resetHostOnce returning early with p.hosts set to the empty result.
ResetFailClears ==
  /\ ~crashed
  /\ rpc = "sleep"
  /\ gen < MaxRefreshes
  /\ \E e \in ResetErrors : gen' = gen + 1
  /\ hosts' = NilHeader
  /\ UNCHANGED <<heap, crashed, rpc, nrows, spawned, gpc, node, wg, ch,
                 rw, pingvars, readvars, hvars, fanvars, envvars, fnvars>>

\* resetHostOnce returns early, leaving p.hosts alone.
ResetFail ==
  /\ ~crashed
  /\ rpc = "sleep"
  /\ gen < MaxRefreshes
  /\ \E e \in ResetErrors : gen' = gen + 1
  /\ UNCHANGED <<hosts, heap, crashed, rpc, nrows, spawned, gpc, node, wg, ch,
                 rw, pingvars, readvars, hvars, fanvars, envvars, fnvars>>

\* resetHostOnce up to the loop: the page has n rows; result is nil,
\* wg.Add(len(nodes)), ch is empty.
ResetStart ==
  /\ ~crashed
  /\ rpc = "sleep"
  /\ gen < MaxRefreshes
  /\ \E n \in Rows : nrows' = n /\ wg' = n
  /\ gen' = gen + 1
  /\ heap' = [heap EXCEPT ![gen + 1] = <<>>]
  /\ spawned' = 0
  /\ ch' = 0
  /\ rw' = 0
  /\ gpc' = [n \in Rows |-> "none"]
  /\ node' = [n \in Rows |-> NoNode]
  /\ rpc' = "spawn"
  /\ UNCHANGED <<hosts, crashed, pingvars, readvars, hvars, fanvars, envvars, fnvars>>

CanSendAlways(c) == TRUE

\* ch <- true blocks while the channel is full.
CanSend(c) == c < ChanCap

\* One iteration of the loop over nodes: ch <- true, then go func().
Spawn ==
  /\ ~crashed
  /\ rpc = "spawn"
  /\ CanSend(ch)
  /\ ch' = ch + 1
  /\ spawned' = spawned + 1
  /\ gpc' = [gpc EXCEPT ![spawned + 1] = "node2host"]
  /\ rpc' = IF spawned + 1 = nrows THEN "wait" ELSE "spawn"
  /\ UNCHANGED <<hosts, heap, crashed, gen, nrows, node, wg, rw, pingvars,
                 readvars, hvars, fanvars, envvars, fnvars>>

\* node2host up to the call of pingHost.
Extract(n) ==
  /\ ~crashed
  /\ gpc[n] = "node2host"
  /\ \E kind \in RowKinds :
       CASE kind \in {"noStatusCell", "noHref", "badUrl"} ->
              /\ node' = [node EXCEPT ![n] = NoNode]
              /\ gpc' = [gpc EXCEPT ![n] = "wgdone"]
              /\ crashed' = crashed
         [] kind \in {"emptyStatusCell", "emptyUrlCell"} ->
              \* getAttrFromNode(nil, ...) dereferences nil: panic
              /\ crashed' = TRUE
              /\ UNCHANGED <<node, gpc>>
         [] OTHER ->
              /\ \E u \in Urls, reported \in BOOLEAN :
                   node' = [node EXCEPT ![n] =
                              [url |-> u, status |-> reported, delay |-> 0,
                               ping |-> "none"]]
              /\ gpc' = [gpc EXCEPT ![n] = "probe"]
              /\ crashed' = crashed
  /\ UNCHANGED <<hosts, heap, gen, rpc, nrows, spawned, wg, ch, rw, pingvars,
                 readvars, hvars, fanvars, envvars, fnvars>>

ProbedKeepStatus(e, res) ==
  [url |-> e.url,
   status |-> e.status,
   delay |-> res.delay,
   ping |-> IF res.ok THEN "ok" ELSE "err"]

\* node2host from pingHost on: a failed probe clears status, delay is what
\* pingHost returned.
Probed(e, res) ==
  [url |-> e.url,
   status |-> IF res.ok THEN e.status ELSE FALSE,
   delay |-> res.delay,
   ping |-> IF res.ok THEN "ok" ELSE "err"]

\* pingHost returns: http.DefaultTransport.RoundTrip is called with a
\* request that carries no deadline, and DefaultTransport sets no
\* ResponseHeaderTimeout, so the call returns only when the instance answers
\* or the connection fails.
PingReturns(u) == u \notin silent

Probe(n) ==
  /\ ~crashed
  /\ gpc[n] = "probe"
  /\ PingReturns(node[n].url)
  /\ \E res \in PingResults : node' = [node EXCEPT ![n] = Probed(@, res)]
  /\ gpc' = [gpc EXCEPT ![n] = "lock"]
  /\ UNCHANGED <<hosts, heap, crashed, gen, rpc, nrows, spawned, wg, ch, rw,
                 pingvars, readvars, hvars, fanvars, envvars, fnvars>>

\* rw.Lock() in the goroutine
LockResult(n) ==
  /\ ~crashed
  /\ gpc[n] = "lock"
  /\ rw = 0
  /\ rw' = n
  /\ gpc' = [gpc EXCEPT ![n] = "append"]
  /\ UNCHANGED <<hosts, heap, crashed, gen, rpc, nrows, spawned, node, wg, ch,
                 pingvars, readvars, hvars, fanvars, envvars, fnvars>>

\* result = append(result, e); rw.Unlock()
AppendResult(n) ==
  /\ ~crashed
  /\ gpc[n] = "append"
  /\ heap' = [heap EXCEPT ![gen] = Append(@, Host(node[n]))]
  /\ rw' = 0
  /\ gpc' = [gpc EXCEPT ![n] = "wgdone"]
  /\ UNCHANGED <<hosts, crashed, gen, rpc, nrows, spawned, node, wg, ch,
                 pingvars, readvars, hvars, fanvars, envvars, fnvars>>

\* The deferred function: wg.Done() ...
WgDone(n) ==
  /\ ~crashed
  /\ gpc[n] = "wgdone"
  /\ wg' = wg - 1
  /\ gpc' = [gpc EXCEPT ![n] = "recv"]
  /\ UNCHANGED <<hosts, heap, crashed, gen, rpc, nrows, spawned, node, ch, rw,
                 pingvars, readvars, hvars, fanvars, envvars, fnvars>>

\* ... and <-ch; the goroutine ends.
ChanRecv(n) ==
  /\ ~crashed
  /\ gpc[n] = "recv"
  /\ ch' = ch - 1
  /\ gpc' = [gpc EXCEPT ![n] = "done"]
  /\ UNCHANGED <<hosts, heap, crashed, gen, rpc, nrows, spawned, node, wg, rw,
                 pingvars, readvars, hvars, fanvars, envvars, fnvars>>

\* resetHostOnce going on without waiting for the goroutines.
WaitDoneEarly ==
  /\ ~crashed
  /\ rpc = "wait"
  /\ rw = 0
  /\ rw' = -1
  /\ rpc' = "publish"
  /\ UNCHANGED <<hosts, heap, crashed, gen, nrows, spawned, gpc, node, wg, ch,
                 pingvars, readvars, hvars, fanvars, envvars, fnvars>>

\* wg.Wait() returns; rw.RLock()
WaitDone ==
  /\ ~crashed
  /\ rpc = "wait"
  /\ wg = 0
  /\ rw = 0
  /\ rw' = -1
  /\ rpc' = "publish"
  /\ UNCHANGED <<hosts, heap, crashed, gen, nrows, spawned, gpc, node, wg, ch,
                 pingvars, readvars, hvars, fanvars, envvars, fnvars>>

\* p.hosts = result.  The header is several words and nothing orders the
\* store with the loads of the Get methods and of pingHosts (rw is local to
\* this call), so the words become visible one after the other, in either
\* order.
PublishWord ==
  /\ ~crashed
  /\ rpc = "publish"
  /\ \/ hosts' = [hosts EXCEPT !.ptr = gen] /\ rpc' = "publishLen"
     \/ hosts' = [hosts EXCEPT !.len = Len(heap[gen])] /\ rpc' = "publishPtr"
  /\ UNCHANGED <<heap, crashed, gen, nrows, spawned, gpc, node, wg, ch, rw,
                 pingvars, readvars, hvars, fanvars, envvars, fnvars>>

\* The rest of the header; the deferred rw.RUnlock(); resetHostOnce returns.
PublishRest ==
  /\ ~crashed
  /\ rpc \in {"publishLen", "publishPtr"}
  /\ hosts' = [ptr |-> gen, len |-> Len(heap[gen])]
  /\ rw' = 0
  /\ rpc' = "sleep"
  /\ nrows' = 0
  /\ spawned' = 0
  /\ node' = [n \in Rows |-> NoNode]
  /\ gpc' = [n \in Rows |-> IF gpc[n] = "recv" THEN "recv" ELSE "none"]
  /\ UNCHANGED <<heap, crashed, gen, wg, ch, pingvars, readvars, hvars, fanvars, envvars, fnvars>>

\* pingHosts, after the sleep: range p.hosts copies the header.
PingStart ==
  /\ ~crashed
  /\ Inited
  /\ ppc = "sleep"
  /\ pings < MaxPings
  /\ pings' = pings + 1
  /\ IF hosts.len = 0
       THEN UNCHANGED <<ppc, phdr, pidx>>
       ELSE phdr' = hosts /\ pidx' = 1 /\ ppc' = "probe"
  /\ UNCHANGED <<hosts, heap, crashed, refreshvars, pres, readvars, hvars, fanvars, envvars, fnvars>>

\* deloy, err := pingHost(hws.URL)
PingProbe ==
  /\ ~crashed
  /\ ppc = "probe"
  /\ InBounds(phdr, pidx)
  /\ PingReturns(heap[phdr.ptr][pidx].url)
  /\ \E res \in PingResults : pres' = res
  /\ ppc' = "write"
  /\ UNCHANGED <<hosts, heap, crashed, refreshvars, phdr, pidx, pings,
                 readvars, hvars, fanvars, envvars, fnvars>>

\* pingHosts clearing the flag on a failure and leaving it on a success.
PingedOnlyClears(h, res) ==
  IF res.ok THEN [h EXCEPT !.delay = res.delay]
  ELSE [h EXCEPT !.status = FALSE]

\* What pingHosts stores in the host after the probe.
Pinged(h, res) ==
  IF res.ok THEN [h EXCEPT !.status = TRUE, !.delay = res.delay]
  ELSE [h EXCEPT !.status = FALSE]

\* hws.status = ...; hws.delay = deloy; next host.
PingWrite ==
  /\ ~crashed
  /\ ppc = "write"
  /\ heap' = [heap EXCEPT ![phdr.ptr][pidx] = Pinged(@, pres)]
  /\ pres' = NoPing
  /\ IF pidx = phdr.len
       THEN ppc' = "sleep" /\ pidx' = 0 /\ phdr' = NilHeader
       ELSE ppc' = "probe" /\ pidx' = pidx + 1 /\ phdr' = phdr
  /\ UNCHANGED <<hosts, crashed, refreshvars, pings, readvars, hvars, fanvars, envvars, fnvars>>

\* pingHosts reaches an element outside the array: a nil or wild pointer is
\* dereferenced.  Either the process panics or the loop goes on.
PingWild ==
  /\ ~crashed
  /\ ppc = "probe"
  /\ ~InBounds(phdr, pidx)
  /\ \/ crashed' = TRUE /\ UNCHANGED <<ppc, pidx, phdr>>
     \/ /\ crashed' = crashed
        /\ IF pidx = phdr.len
             THEN ppc' = "sleep" /\ pidx' = 0 /\ phdr' = NilHeader
             ELSE ppc' = "probe" /\ pidx' = pidx + 1 /\ phdr' = phdr
  /\ UNCHANGED <<hosts, heap, refreshvars, pres, pings, readvars, hvars, fanvars, envvars, fnvars>>

\* GetActiveInstances: range p.hosts copies the header.
GetActiveStart(r) ==
  /\ ~crashed
  /\ Inited
  /\ rdpc[r] = "idle"
  /\ rdhdr' = [rdhdr EXCEPT ![r] = hosts]
  /\ rdidx' = [rdidx EXCEPT ![r] = 1]
  /\ rdpc' = [rdpc EXCEPT ![r] = IF hosts.len = 0 THEN "select" ELSE "active"]
  /\ UNCHANGED <<hosts, heap, crashed, refreshvars, pingvars, rdseen, rdactive,
                 rdall, rdlist, hvars, fanvars, envvars, fnvars>>

KeepAll(h) == TRUE

\* if hws.status
KeepActive(h) == h.status

\* What a Get method reads at element k of its header: the host, or
\* anything when k is outside the array.
Garbage == {[url |-> 0, status |-> b, delay |-> 0] : b \in BOOLEAN}

ElemRead(h, k) == IF InBounds(h, k) THEN {heap[h.ptr][k]} ELSE Garbage

\* One iteration of the loop of GetActiveInstances.
GetActiveStep(r) ==
  /\ ~crashed
  /\ rdpc[r] = "active"
  /\ \/ /\ \E h \in ElemRead(rdhdr[r], rdidx[r]) :
             /\ rdseen' = [rdseen EXCEPT ![r] =
                             Append(@, [url |-> h.url, status |-> h.status])]
             /\ rdactive' = [rdactive EXCEPT ![r] =
                               IF KeepActive(h) THEN Append(@, h.url) ELSE @]
        /\ IF rdidx[r] = rdhdr[r].len
             THEN rdpc' = [rdpc EXCEPT ![r] = "select"] /\ rdidx' = rdidx
             ELSE rdpc' = rdpc /\ rdidx' = [rdidx EXCEPT ![r] = @ + 1]
        /\ crashed' = crashed
     \/ /\ ~InBounds(rdhdr[r], rdidx[r])
        /\ crashed' = TRUE
        /\ UNCHANGED <<rdseen, rdactive, rdpc, rdidx>>
  /\ UNCHANGED <<hosts, heap, refreshvars, pingvars, rdhdr, rdall, rdlist,
                 hvars, fanvars, envvars, fnvars>>

\* The orchestrator's choice of list: the active instances, and all of them
\* when none is active.
UseAll(active) == active = <<>>

SelectInstances(r) ==
  /\ ~crashed
  /\ rdpc[r] = "select"
  /\ IF UseAll(rdactive[r])
       THEN rdpc' = [rdpc EXCEPT ![r] = "all"] /\ rdlist' = rdlist
       ELSE /\ rdpc' = [rdpc EXCEPT ![r] = "done"]
            /\ rdlist' = [rdlist EXCEPT ![r] = rdactive[r]]
  /\ UNCHANGED <<hosts, heap, crashed, refreshvars, pingvars, rdhdr, rdidx,
                 rdseen, rdactive, rdall, hvars, fanvars, envvars, fnvars>>

\* The lists GetAllInstances can return for the header h.
AllOf(h) ==
  IF h.len <= Len(heap[h.ptr])
    THEN {[k \in 1..h.len |-> heap[h.ptr][k].url]}
    ELSE {[k \in 1..h.len |->
             IF k <= Len(heap[h.ptr]) THEN heap[h.ptr][k].url ELSE 0]}

\* GetAllInstances: the URLs are never written after the append, so the
\* loop is one step from the copy of the header on.
GetAll(r) ==
  /\ ~crashed
  /\ rdpc[r] = "all"
  /\ rdhdr' = [rdhdr EXCEPT ![r] = hosts]
  /\ \/ /\ \E l \in AllOf(hosts) :
             /\ rdall' = [rdall EXCEPT ![r] = l]
             /\ rdlist' = [rdlist EXCEPT ![r] = l]
        /\ rdpc' = [rdpc EXCEPT ![r] = "done"]
        /\ crashed' = crashed
     \/ /\ hosts.len > Len(heap[hosts.ptr])
        /\ crashed' = TRUE
        /\ UNCHANGED <<rdall, rdlist, rdpc>>
  /\ UNCHANGED <<hosts, heap, refreshvars, pingvars, rdidx, rdseen, rdactive,
                 hvars, fanvars, envvars, fnvars>>

\* The hosts a refresh can put in its result: any URL with any status and
\* delay (status is the glyph of the row and the probe's success together).
Hosts ==
  [url : Urls, status : BOOLEAN, delay : 0..MaxDelay]

RECURSIVE SeqsUpTo(_, _)
SeqsUpTo(S, n) ==
  IF n = 0 THEN {<<>>}
  ELSE LET shorter == SeqsUpTo(S, n - 1)
       IN shorter \cup {Append(q, x) : q \in {t \in shorter : Len(t) = n - 1},
                                       x \in S}

\* resetHostOnce from the loop to wg.Wait() and rw.RLock(), as seen by the
\* other goroutines of the process: until p.hosts is assigned the row
\* goroutines write only result, rw, wg and ch, which are local to the call.
\* The result is a list of at most len(nodes) hosts.
ResetBuild ==
  /\ ~crashed
  /\ rpc = "sleep"
  /\ gen < MaxRefreshes
  /\ \E l \in SeqsUpTo(Hosts, MaxRows) :
       /\ \A k \in DOMAIN l : PingReturns(l[k].url)
       /\ heap' = [heap EXCEPT ![gen + 1] = l]
  /\ gen' = gen + 1
  /\ rw' = -1
  /\ rpc' = "publish"
  /\ UNCHANGED <<hosts, crashed, nrows, spawned, gpc, node, wg, ch, pingvars,
                 readvars, hvars, fanvars, envvars, fnvars>>

\* resetHostOnce when a row goroutine panics.
ResetPanic ==
  /\ ~crashed
  /\ rpc = "sleep"
  /\ gen < MaxRefreshes
  /\ gen' = gen + 1
  /\ crashed' = TRUE
  /\ UNCHANGED <<hosts, heap, rpc, nrows, spawned, gpc, node, wg, ch, rw,
                 pingvars, readvars, hvars, fanvars, envvars, fnvars>>

\* The refresh, goroutine by goroutine.
NextRefresh ==
  \/ ResetFail
  \/ ResetStart
  \/ Spawn
  \/ \E n \in Rows :
       \/ Extract(n)
       \/ Probe(n)
       \/ LockResult(n)
       \/ AppendResult(n)
       \/ WgDone(n)
       \/ ChanRecv(n)
  \/ WaitDone
  \/ PublishWord
  \/ PublishRest

\* The provider in use: refreshes, the re-probe loop and callers.
NextWiki ==
  \/ ResetFail
  \/ ResetBuild
  \/ ResetPanic
  \/ PublishWord
  \/ PublishRest
  \/ PingStart
  \/ PingProbe
  \/ PingWrite
  \/ PingWild
  \/ \E r \in Readers :
       \/ GetActiveStart(r)
       \/ GetActiveStep(r)
       \/ SelectInstances(r)
       \/ GetAll(r)

\* One handler, not serving; the provider runs.
\* Handler and provider constructed, nothing running
AtRest ==
  /\ ProviderInit
  /\ instances = <<1>>
  /\ cycle = FALSE
  /\ start = 0
  /\ mu = 0
  /\ pc = [r \in Requests |-> "idle"]
  /\ req = [r \in Requests |-> NoReq]
  /\ lstart = [r \in Requests |-> 0]
  /\ i = [r \in Requests |-> 0]
  /\ w = [r \in Requests |-> NoResponse]
  /\ attempts = [r \in Requests |-> <<>>]
  /\ reads = 0
  /\ EnvInit

InitWiki ==
  /\ AtRest
  /\ FnInit

SpecRefresh == InitWiki /\ [][NextRefresh]_vars

SpecWiki == InitWiki /\ [][NextWiki]_vars

\* From now on the server of instance u accepts requests and never answers.
GoSilent(u) ==
  /\ u \notin silent
  /\ silent' = silent \cup {u}
  /\ UNCHANGED <<hvars, pvars, ctxDone, fnvars>>

\* One request is enough to see whether a fetch returns.
HangRequests == {r \in Requests : r = 1}

\* The provider's loops and the handler (cycling is off, so hnd.mu is never
\* taken), with instances that stop answering.
NextHang ==
  \/ ResetFail
  \/ ResetBuild
  \/ PublishWord
  \/ PublishRest
  \/ PingStart
  \/ PingProbe
  \/ PingWrite
  \/ PingWild
  \/ \E r \in HangRequests :
       \/ Validate(r)
       \/ ReadStart(r)
       \/ FetchFail(r)
       \/ FetchRewrite(r)
       \/ Exhausted(r)
  \/ \E u \in Urls : GoSilent(u)

\* Every goroutine that can take a step takes one: the re-probe loop, the
\* refresh that is publishing, each request being served.
FairHang ==
  /\ WF_vars(PingStart \/ PingProbe \/ PingWrite \/ PingWild)
  /\ WF_vars(PublishWord \/ PublishRest)
  /\ \A r \in HangRequests :
       WF_vars(ReadStart(r) \/ FetchFail(r) \/ FetchRewrite(r) \/ Exhausted(r))

SpecHang == InitWiki /\ [][NextHang]_vars /\ FairHang

(***************************************************************************)
(* The fan-out of resetHostOnce with the row goroutines counted by         *)
(* position instead of told apart, for pages longer than the channel.      *)
(***************************************************************************)
FanRows == (ChanCap - 1)..MaxFanRows

\* resetHostOnce up to the loop, on a page of n rows.
FanStart ==
  /\ ~crashed
  /\ rpc = "sleep"
  /\ gen = 0
  /\ \E n \in FanRows : nrows' = n /\ wg' = n
  /\ gen' = gen + 1
  /\ ch' = 0
  /\ spawned' = 0
  /\ rpc' = "spawn"
  /\ UNCHANGED <<hosts, heap, crashed, gpc, node, rw, fanvars, pingvars,
                 readvars, hvars, envvars, fnvars>>

\* One iteration of the loop over nodes: ch <- true, then go func().
FanSpawn ==
  /\ ~crashed
  /\ rpc = "spawn"
  /\ CanSend(ch)
  /\ ch' = ch + 1
  /\ spawned' = spawned + 1
  /\ started' = started + 1
  /\ rpc' = IF spawned + 1 = nrows THEN "wait" ELSE "spawn"
  /\ UNCHANGED <<hosts, heap, crashed, gen, nrows, gpc, node, wg, rw, probing,
                 leaving, pingvars, readvars, hvars, envvars, fnvars>>

\* node2host returns nil before pingHost; the deferred wg.Done() runs.
FanNoHost ==
  /\ ~crashed
  /\ started > 0
  /\ started' = started - 1
  /\ wg' = wg - 1
  /\ leaving' = leaving + 1
  /\ UNCHANGED <<hosts, heap, crashed, gen, rpc, nrows, spawned, gpc, node, ch,
                 rw, probing, pingvars, readvars, hvars, envvars, fnvars>>

\* node2host dereferences the nil child of an empty cell: panic.
FanPanic ==
  /\ ~crashed
  /\ started > 0
  /\ crashed' = TRUE
  /\ UNCHANGED <<hosts, heap, refreshvars, fanvars, pingvars, readvars, hvars, envvars, fnvars>>

\* node2host calls pingHost.
FanProbeStart ==
  /\ ~crashed
  /\ started > 0
  /\ started' = started - 1
  /\ probing' = probing + 1
  /\ UNCHANGED <<hosts, heap, crashed, refreshvars, leaving, pingvars,
                 readvars, hvars, envvars, fnvars>>

\* pingHost returns; the host is appended under rw; wg.Done().
FanProbeEnd ==
  /\ ~crashed
  /\ probing > 0
  /\ probing' = probing - 1
  /\ wg' = wg - 1
  /\ leaving' = leaving + 1
  /\ UNCHANGED <<hosts, heap, crashed, gen, rpc, nrows, spawned, gpc, node, ch,
                 rw, started, pingvars, readvars, hvars, envvars, fnvars>>

\* <-ch; the goroutine ends.
FanRecv ==
  /\ ~crashed
  /\ leaving > 0
  /\ leaving' = leaving - 1
  /\ ch' = ch - 1
  /\ UNCHANGED <<hosts, heap, crashed, gen, rpc, nrows, spawned, gpc, node, wg,
                 rw, started, probing, pingvars, readvars, hvars, envvars, fnvars>>

\* wg.Wait() returns.
FanWaitDone ==
  /\ ~crashed
  /\ rpc = "wait"
  /\ wg = 0
  /\ rpc' = "waited"
  /\ UNCHANGED <<hosts, heap, crashed, gen, nrows, spawned, gpc, node, wg, ch,
                 rw, fanvars, pingvars, readvars, hvars, envvars, fnvars>>

NextFanOut ==
  \/ FanStart
  \/ FanSpawn
  \/ FanNoHost
  \/ FanPanic
  \/ FanProbeStart
  \/ FanProbeEnd
  \/ FanRecv
  \/ FanWaitDone

SpecFanOut == InitWiki /\ [][NextFanOut]_vars

(***************************************************************************)
(* Properties of the failover pass (Spec).                                 *)
(***************************************************************************)
N == Len(instances)

Failed(r) == {k \in DOMAIN attempts[r] : attempts[r][k].res # "ok"}

AllFailed(r) ==
  /\ pc[r] = "done"
  /\ Len(attempts[r]) = N
  /\ Failed(r) = DOMAIN attempts[r]

\* C1: for every instance list of length N >= 1 and every starting index,
\* the failover pass of one request attempts each instance at most once and
\* makes at most N fetch attempts in total.
PassVisitsEachInstanceAtMostOnce ==
  \A r \in Requests :
    /\ Len(attempts[r]) <= N
    /\ \A a, b \in DOMAIN attempts[r] :
         a # b => attempts[r][a].inst # attempts[r][b].inst

\* A pass that started past the first instance, wrapped around and tried
\* every instance of a list of two or more.
PassVisitsEachInstanceWitness ==
  \E r \in Requests :
    /\ N >= 2
    /\ lstart[r] > 0
    /\ Len(attempts[r]) = N
    /\ {attempts[r][k].inst : k \in DOMAIN attempts[r]} = 1..N

\* C2: within one request the instances are attempted in the rotated order
\* list[(start+i) mod N] for i = 0, 1, ...; the pass stops at the first
\* instance whose fetch and rewrite both succeed (only the last attempt can
\* be a success, and after it the request is finished with that feed), and
\* the number of failed attempts equals the number of instances that precede
\* the successful one in that order.
PassFollowsRotatedOrder ==
  \A r \in Requests :
    /\ \A k \in DOMAIN attempts[r] :
         /\ attempts[r][k].inst = instances[((lstart[r] + (k - 1)) % N) + 1]
         /\ k < Len(attempts[r]) => attempts[r][k].res # "ok"
    /\ \A k \in DOMAIN attempts[r] :
         attempts[r][k].res = "ok" =>
           /\ pc[r] = "done"
           /\ Cardinality(Failed(r)) = k - 1
           /\ w[r].body[Len(w[r].body)] = "feed"

\* Three instances, the pass starting at the second: the first two attempts
\* fail at the fetch, the third one succeeds and its feed is returned.
PassFollowsRotatedOrderWitness ==
  \E r \in Requests :
    /\ N = 3
    /\ lstart[r] = 1
    /\ pc[r] = "done"
    /\ attempts[r] = <<[inst |-> 2, res |-> "fetchErr"],
                       [inst |-> 3, res |-> "fetchErr"],
                       [inst |-> 1, res |-> "ok"]>>
    /\ w[r] = [status |-> StatusOK, body |-> <<"feed">>]

\* C3: if every instance fails for a request (at the fetch stage or at the
\* parse/rewrite/write stage), the client receives exactly one aggregate 500
\* failure and no feed bytes have been written to the response.
AllFailedGivesOnly500 ==
  \A r \in Requests :
    AllFailed(r) => w[r] = [status |-> StatusInternalServerError,
                            body |-> <<"error">>]

\* C4: with cycling enabled, each request's read of the rotation cursor and
\* its advance form one atomic step: no two requests read the same cursor
\* value between two consecutive advances.
CursorReadAdvanceAtomic ==
  (cycle /\ N >= 2) => reads <= 1

(***************************************************************************)
(* Properties of the provider (SpecWiki, SpecRefresh, SpecFanOut).         *)
(***************************************************************************)

\* The URLs of the hosts GetActiveInstances read as alive, in order.
SeenAlive(r) ==
  LET alive == SelectSeq(rdseen[r], LAMBDA h : h.status)
  IN [k \in 1..Len(alive) |-> alive[k].url]

SameList(h, g) ==
  /\ h.len = Len(heap[g])
  /\ h.len <= Len(heap[h.ptr])
  /\ \A k \in 1..h.len : heap[h.ptr][k].url = heap[g][k].url

\* C6: replacement of the discovered-instance snapshot by a refresh is atomic
\* with respect to readers: the slice a GetAllInstances or GetActiveInstances
\* call ranges over lists the whole result of one refresh (the old snapshot
\* or the new one), never a mix or a part of one.
ReadersSeeWholeSnapshot ==
  \A r \in Readers :
    rdpc[r] # "idle" => \E g \in 0..gen : SameList(rdhdr[r], g)

\* GetActiveInstances and pingHosts take no lock; resetHostOnce's rw is a
\* local variable of each call.
ReaderLocks(r) == {}
PingLocks == {}

\* C7: an instance's health record is never read by GetActiveInstances while
\* the re-probe loop is writing it: the read of hws.status and the write of
\* the same host's status are never both pending without a common lock.
HealthAccessSynchronized ==
  \A r \in Readers :
    ~ /\ rdpc[r] = "active"
      /\ ppc = "write"
      /\ rdhdr[r].ptr = phdr.ptr
      /\ rdidx[r] = pidx
      /\ InBounds(phdr, pidx)
      /\ ReaderLocks(r) \cap PingLocks = {}

\* C8: during a refresh, at every moment at most 30 row probes are in
\* flight, whatever the number of candidate rows in the directory page.
AtMost30ProbesInFlight ==
  probing <= 30

\* A page of more than 30 rows: 30 probes are in flight and the loop is
\* blocked on the channel before the next row.
AtMost30ProbesWitness ==
  /\ nrows > 30
  /\ rpc = "spawn"
  /\ spawned = 30
  /\ probing = 30

Publishing == rpc \in {"publish", "publishLen", "publishPtr"}

\* The rows of the page for which node2host returned a host.
Yielded == {n \in 1..nrows : node[n].ping # "none"}

\* The result holds one entry for each row of Y, whatever the order.
ResultHolds(Y) ==
  /\ Len(heap[gen]) = Cardinality(Y)
  /\ \E f \in [1..Len(heap[gen]) -> Y] :
       /\ \A a, b \in 1..Len(heap[gen]) : a # b => f[a] # f[b]
       /\ \A k \in 1..Len(heap[gen]) : heap[gen][k] = Host(node[f[k]])

\* C9 as stated: in a refresh, a candidate row whose extraction or whose
\* probe fails is omitted from the newly built snapshot, which holds all the
\* other rows.
FailedRowsOmitted ==
  Publishing => ResultHolds({n \in 1..nrows : node[n].ping = "ok"})

\* C9 as amended: a row whose extraction yields no host is omitted from the
\* newly built snapshot, a row whose probe fails is kept in it with alive
\* false, and the snapshot a refresh publishes holds every row that yielded
\* a host.
FailedProbeKeptNotAlive ==
  Publishing =>
    /\ ResultHolds(Yielded)
    /\ \A n \in Yielded : node[n].ping = "err" => ~node[n].status

\* A page of two rows, one without a host and one whose probe failed: only
\* the second is in the result, and not alive.
FailedProbeKeptWitness ==
  /\ Publishing
  /\ nrows = 2
  /\ \E a, b \in 1..2 :
       /\ node[a].ping = "none"
       /\ node[b].ping = "err"
       /\ heap[gen] = <<[url |-> node[b].url, status |-> FALSE, delay |-> 0]>>

\* C10: no discovery or probe error (unreachable directory, unparseable page,
\* a row lacking a status cell, a URL cell or child element, an unparseable
\* URL, a failed probe) ever terminates the refresh loop, the re-probe loop
\* or the process.
NoErrorEndsTheProcess ==
  ~crashed

(***************************************************************************)
(* Properties of ServeHTTP under cancellation (SpecDeadline).              *)
(***************************************************************************)

\* C11: a request's own timeout bounds its fetch attempts in aggregate: once
\* the request's overall deadline has passed or the request is cancelled, no
\* further instance is attempted for it.
NoAttemptAfterDeadline ==
  [][\A r \in Requests : ctxDone[r] => attempts'[r] = attempts[r]]_vars

(***************************************************************************)
(* Termination of the outbound calls (SpecHang).                           *)
(***************************************************************************)

\* C12: every outbound health probe and every feed fetch eventually returns
\* even when the remote never answers: the re-probe loop always gets past
\* the probe it is in, and a request in the failover loop always finishes.
ProbesAndFetchesReturn ==
  /\ (ppc = "probe") ~> (ppc # "probe" \/ crashed)
  /\ \A r \in Requests : (pc[r] = "loop") ~> (pc[r] = "done")

(***************************************************************************)
(* Properties of the checks at the head of ServeHTTP (SpecPaths).          *)
(***************************************************************************)

\* The request r has been answered with the error code and nothing else.
Answered(r, code) ==
  /\ pc[r] = "done"
  /\ w[r] = [status |-> code, body |-> <<"error">>]

\* An account path as the specification describes it: one or more
\* comma-separated tokens of letters, digits and underscores, with an
\* optional /media, /search or /with_replies.
AccountPath ==
  <<Bol,
    Rep(Cls(WordChar), 1),
    Rep(Cat(<<Lit(<<",">>), Rep(Cls(WordChar), 1)>>), 0),
    Opt(Alt(<<Lit(SlashMedia), Lit(SlashSearch), Lit(SlashWithReplies)>>)),
    Eol>>

\* The path p ends in an account path (what precedes it is the prefix the
\* handler is mounted under).
HasAccount(p) ==
  \E k \in 1..Len(p) : Find(AccountPath, SubSeq(p, k, Len(p)), 1) # <<>>

\* C13: ServeHTTP answers a non-GET request with 405 whatever its path, and
\* a GET request whose path is not a valid account path (and is no favicon
\* request) with 400; the method check takes precedence.
BadMethod405BadPath400 ==
  \A r \in Requests :
    req[r] # NoReq =>
      /\ req[r].method # "GET" => Answered(r, StatusMethodNotAllowed)
      /\ ( /\ req[r].method = "GET"
           /\ ~HasSuffix(req[r].path, FaviconIco)
           /\ ~HasAccount(req[r].path) ) => Answered(r, StatusBadRequest)

\* The request r was answered with a client error.
ClientError(r) ==
  w[r].status \in {StatusBadRequest, StatusNotFound, StatusMethodNotAllowed}

\* C14: a client-error outcome (bad method, favicon path, invalid account
\* path) is decided without contacting an instance and without touching the
\* rotation cursor: the step that answers leaves hnd.start and hnd.mu alone,
\* and a request so answered is finished and has made no fetch attempt.
ClientErrorTouchesNothing ==
  [][\A r \in Requests :
       ClientError(r)' =>
         /\ pc'[r] = "done"
         /\ attempts'[r] = <<>>
         /\ lstart'[r] = 0
         /\ ~ClientError(r) => (start' = start /\ mu' = mu /\ reads' = reads)
    ]_vars

\* With cycling on and two or more instances, a GET for a path without an
\* account was answered 400, no instance was contacted and the cursor is
\* where it was.
ClientErrorTouchesNothingWitness ==
  \E r \in Requests :
    /\ cycle
    /\ N >= 2
    /\ req[r].method = "GET"
    /\ Answered(r, StatusBadRequest)
    /\ attempts[r] = <<>>
    /\ start = 0

\* C15: a GET request whose path ends in favicon.ico is rejected with a
\* client error before the account is extracted: it is finished with a 4xx
\* answer and no instance is asked for the account "ico" that userRegexp
\* finds in it.
FaviconRejectedFirst ==
  \A r \in Requests :
    (req[r].method = "GET" /\ HasSuffix(req[r].path, FaviconIco)) =>
      /\ pc[r] = "done"
      /\ w[r].status >= 400 /\ w[r].status < 500
      /\ w[r].body = <<"error">>
      /\ attempts[r] = <<>>

\* GET /favicon.ico, in which userRegexp finds "ico", was answered 404.
FaviconRejectedFirstWitness ==
  \E r \in Requests :
    /\ req[r] = [method |-> "GET", path |-> <<"/">> \o FaviconIco]
    /\ FindString(userRegexp, req[r].path) = <<"i", "c", "o">>
    /\ Answered(r, StatusNotFound)

\* C16: a request path is accepted as an account path only if it consists
\* of one or more comma-separated alphanumeric/underscore tokens with an
\* optional /media, /search or /with_replies; every other path (one that
\* consists only of commas, say) is rejected with 400.
OnlyAccountPathsAccepted ==
  \A r \in Requests :
    (req[r].method = "GET" /\ ~HasSuffix(req[r].path, FaviconIco)) =>
      (Answered(r, StatusBadRequest) <=> ~HasAccount(req[r].path))

\* ---------------------------------------------------------------------
\* Strings of the standard library, on sequences of one-character strings.

Alphabet ==
  <<"a", "b", "c", "d", "e", "f", "g", "h", "i", "j", "k", "l", "m",
    "n", "o", "p", "q", "r", "s", "t", "u", "v", "w", "x", "y", "z">>
Capitals ==
  <<"A", "B", "C", "D", "E", "F", "G", "H", "I", "J", "K", "L", "M",
    "N", "O", "P", "Q", "R", "S", "T", "U", "V", "W", "X", "Y", "Z">>

\* strings.ToLower
ToLower(str) ==
  [k \in DOMAIN str |->
     IF \E j \in DOMAIN Capitals : Capitals[j] = str[k]
     THEN Alphabet[CHOOSE j \in DOMAIN Capitals : Capitals[j] = str[k]]
     ELSE str[k]]

\* strings.Index and strings.LastIndex for a one-character separator,
\* counted from 1 (0: absent)
Index(str, c) ==
  IF \E k \in DOMAIN str : str[k] = c
  THEN CHOOSE k \in DOMAIN str :
         str[k] = c /\ \A j \in 1..(k - 1) : str[j] # c
  ELSE 0
LastIndex(str, c) ==
  IF \E k \in DOMAIN str : str[k] = c
  THEN CHOOSE k \in DOMAIN str :
         str[k] = c /\ \A j \in (k + 1)..Len(str) : str[j] # c
  ELSE 0

Contains(str, c) == Index(str, c) # 0
From(str, k) == SubSeq(str, k, Len(str))
HasPrefix(str, prefix) ==
  /\ Len(prefix) <= Len(str)
  /\ SubSeq(str, 1, Len(prefix)) = prefix

\* strings.Cut for a one-character separator
Cut(str, c) ==
  LET k == Index(str, c)
  IN  IF k = 0
      THEN [before |-> str, after |-> <<>>, found |-> FALSE]
      ELSE [before |-> SubSeq(str, 1, k - 1), after |-> From(str, k + 1),
            found |-> TRUE]

\* strings.Split for a one-character separator: the segments, empty ones
\* included
RECURSIVE Split(_, _)
Split(str, c) ==
  LET k == Index(str, c)
  IN  IF k = 0 THEN <<str>>
      ELSE <<SubSeq(str, 1, k - 1)>> \o Split(From(str, k + 1), c)

\* ---------------------------------------------------------------------
\* net/url: Parse and (*URL).String, as rewriteTwitterURL and newHandler
\* call them. The escaped forms of path, fragment and userinfo are kept
\* as they were written: Parse records them (RawPath, RawFragment) and
\* String writes them back whenever they are valid encodings.

CtlBytes == {"\n", "\t", "\r"}
HexDigits == Digit \cup {"a", "b", "c", "d", "e", "f"}
               \cup {"A", "B", "C", "D", "E", "F"}
LowHex == {"0", "1", "2", "3", "4", "5", "6", "7"}
HostBytes ==
  Lower \cup Upper \cup Digit \cup {"-", "_", ".", "~"}
    \cup {"!", "$", "&", "'", "(", ")", "*", "+", ",", ";", "=", ":",
          "[", "]", "<", ">", "\""}
UserinfoBytes ==
  Lower \cup Upper \cup Digit
    \cup {"-", ".", "_", ":", "~", "!", "$", "&", "'", "(", ")", "*",
          "+", ",", ";", "=", "%", "@"}

\* unescape returns no error: every "%" is followed by two hex digits; in
\* a host the escaped byte is not ASCII (except %25) and every other
\* byte is one a host may hold
ValidEscapes(str, mode) ==
  \A k \in DOMAIN str :
    IF str[k] = "%"
    THEN /\ k + 2 <= Len(str)
         /\ str[k + 1] \in HexDigits
         /\ str[k + 2] \in HexDigits
         /\ mode = "host" =>
              \/ str[k + 1] \notin LowHex
              \/ SubSeq(str, k, k + 2) = <<"%", "2", "5">>
    ELSE mode = "host" => str[k] \in HostBytes

BadURL ==
  [err |-> TRUE, Scheme |-> <<>>, Opaque |-> <<>>, User |-> <<>>,
   HasUser |-> FALSE, Host |-> <<>>, Path |-> <<>>, ForceQuery |-> FALSE,
   RawQuery |-> <<>>, Fragment |-> <<>>]
EmptyURL == [BadURL EXCEPT !.err = FALSE]

\* getScheme: the scheme and what follows its colon
getScheme(rawURL) ==
  LET Stops == {k \in DOMAIN rawURL :
                  ~ \/ rawURL[k] \in Lower \cup Upper
                    \/ /\ rawURL[k] \in Digit \cup {"+", "-", "."}
                       /\ k > 1}
      NoScheme == [err |-> FALSE, scheme |-> <<>>, path |-> rawURL]
  IN  IF Stops = {} THEN NoScheme
      ELSE LET k == CHOOSE k \in Stops : \A j \in Stops : k <= j
           IN  IF rawURL[k] # ":" THEN NoScheme
               ELSE IF k = 1
               THEN [err |-> TRUE, scheme |-> <<>>, path |-> <<>>]
               ELSE [err |-> FALSE, scheme |-> SubSeq(rawURL, 1, k - 1),
                     path |-> From(rawURL, k + 1)]

validOptionalPort(port) ==
  \/ port = <<>>
  \/ /\ port[1] = ":"
     /\ \A k \in 2..Len(port) : port[k] \in Digit

\* parseHost returns no error
validHost(host) ==
  /\ IF HasPrefix(host, <<"[">>)
     THEN /\ Contains(host, "]")
          /\ validOptionalPort(From(host, LastIndex(host, "]") + 1))
     ELSE \/ ~Contains(host, ":")
          \/ validOptionalPort(From(host, LastIndex(host, ":")))
  /\ ValidEscapes(host, "host")

\* parseAuthority
parseAuthority(authority) ==
  LET k == LastIndex(authority, "@")
      host == From(authority, k + 1)
      userinfo == SubSeq(authority, 1, k - 1)
  IN  IF ~validHost(host) THEN BadURL
      ELSE IF k = 0 THEN [EmptyURL EXCEPT !.Host = host]
      ELSE IF \/ \E j \in DOMAIN userinfo : userinfo[j] \notin UserinfoBytes
              \/ ~ValidEscapes(userinfo, "userinfo")
      THEN BadURL
      ELSE [EmptyURL EXCEPT !.Host = host, !.User = userinfo,
                            !.HasUser = TRUE]

\* parse(rawURL, false)
parse(rawURL) ==
  LET gs == getScheme(rawURL)
      scheme == ToLower(gs.scheme)
      onlyLast == /\ gs.path # <<>>
                  /\ Index(gs.path, "?") = Len(gs.path)
      force == onlyLast
      rest == IF onlyLast THEN SubSeq(gs.path, 1, Len(gs.path) - 1)
              ELSE Cut(gs.path, "?").before
      query == IF onlyLast THEN <<>> ELSE Cut(gs.path, "?").after
      url == [EmptyURL EXCEPT !.Scheme = scheme, !.ForceQuery = force,
                              !.RawQuery = query]
  IN  IF \E k \in DOMAIN rawURL : rawURL[k] \in CtlBytes THEN BadURL
      ELSE IF gs.err THEN BadURL
      ELSE IF ~HasPrefix(rest, <<"/">>) /\ scheme # <<>>
      THEN [url EXCEPT !.Opaque = rest]
      ELSE IF /\ ~HasPrefix(rest, <<"/">>)
              /\ Contains(Cut(rest, "/").before, ":")
      THEN BadURL
      ELSE IF /\ HasPrefix(rest, <<"/", "/">>)
              /\ scheme # <<>> \/ ~HasPrefix(rest, <<"/", "/", "/">>)
      THEN LET after == From(rest, 3)
               k == Index(after, "/")
               authority == IF k = 0 THEN after
                            ELSE SubSeq(after, 1, k - 1)
               path == IF k = 0 THEN <<>> ELSE From(after, k)
               au == parseAuthority(authority)
           IN  IF au.err \/ ~ValidEscapes(path, "path") THEN BadURL
               ELSE [url EXCEPT !.User = au.User, !.HasUser = au.HasUser,
                                !.Host = au.Host, !.Path = path]
      ELSE IF ~ValidEscapes(rest, "path") THEN BadURL
      ELSE [url EXCEPT !.Path = rest]

\* url.Parse
Parse(rawURL) ==
  LET c == Cut(rawURL, "#")
      url == parse(c.before)
  IN  IF url.err THEN BadURL
      ELSE IF c.after = <<>> THEN url
      ELSE IF ~ValidEscapes(c.after, "fragment") THEN BadURL
      ELSE [url EXCEPT !.Fragment = c.after]

\* (*URL).String, of a URL whose Host is set (OmitHost plays no part then)
String(url) ==
  LET head == IF url.Scheme # <<>> THEN url.Scheme \o <<":">> ELSE <<>>
      auth == IF url.Scheme # <<>> \/ url.Host # <<>> \/ url.HasUser
              THEN (IF url.Host # <<>> \/ url.Path # <<>> \/ url.HasUser
                    THEN <<"/", "/">> ELSE <<>>)
                   \o (IF url.HasUser THEN url.User \o <<"@">> ELSE <<>>)
                   \o url.Host
              ELSE <<>>
      sep == IF /\ url.Path # <<>>
                /\ url.Path[1] # "/"
                /\ url.Host # <<>>
             THEN <<"/">> ELSE <<>>
      dot == IF /\ head \o auth \o sep = <<>>
                /\ Contains(Cut(url.Path, "/").before, ":")
             THEN <<".", "/">> ELSE <<>>
      body == IF url.Opaque # <<>> THEN url.Opaque
              ELSE auth \o sep \o dot \o url.Path
      query == IF url.ForceQuery \/ url.RawQuery # <<>>
               THEN <<"?">> \o url.RawQuery ELSE <<>>
      frag == IF url.Fragment # <<>> THEN <<"#">> \o url.Fragment
              ELSE <<>>
  IN  head \o body \o query \o frag

Https == <<"h", "t", "t", "p", "s">>
TwitterCom == <<"t", "w", "i", "t", "t", "e", "r", ".", "c", "o", "m">>

\* rewriteTwitterURL's answer to an orig that does not parse
OnParseErrorEmpty(orig) == <<>>

OnParseError(orig) == orig

rewriteTwitterURL(orig) ==
  LET url == Parse(orig)
  IN  IF url.err THEN OnParseError(orig)
      ELSE String([url EXCEPT !.Scheme = Https, !.Host = TwitterCom,
                              !.Fragment = <<>>])

\* ---------------------------------------------------------------------
\* The static registries: newHandler's instance list (main.go) and
\* StaticProvider (pkg/provider).

MaxFlagLen == 4
MaxSegments == 2

\* SelectSeq(segs, in # ""): the loop's "if in == "" { continue }"
RECURSIVE NonEmpty(_)
NonEmpty(segs) ==
  IF segs = <<>> THEN <<>>
  ELSE (IF Head(segs) = <<>> THEN <<>> ELSE <<Head(segs)>>)
       \o NonEmpty(Tail(segs))

\* newHandler(base, instances, opts): the error and hnd.instances
newHandler(base, insts) ==
  LET kept == NonEmpty(Split(insts, ","))
      urls == [k \in DOMAIN kept |-> Parse(kept[k])]
  IN  IF base # <<>> /\ Parse(base).err
      THEN [err |-> TRUE, panic |-> FALSE, instance |-> <<>>]
      ELSE IF \E k \in DOMAIN urls : urls[k].err
      THEN [err |-> TRUE, panic |-> FALSE, instance |-> <<>>]
      ELSE IF Len(urls) = 0
      THEN [err |-> TRUE, panic |-> FALSE, instance |-> <<>>]
      ELSE [err |-> FALSE, panic |-> FALSE, instance |-> urls]

\* (*StaticProvider).Init(cfg), then GetAllInstances and
\* GetActiveInstances, which both return p.instance
StaticInit(cfg) ==
  IF cfg.isNil \/ ~cfg.hasInstance
  THEN [err |-> FALSE, panic |-> FALSE, instance |-> <<>>]
  ELSE IF ~cfg.isStrings
  THEN [err |-> FALSE, panic |-> TRUE, instance |-> <<>>]
  ELSE [err |-> FALSE, panic |-> FALSE, instance |-> cfg.instance]

FlagChars == {"a", ",", ":"}
Flags == SeqsUpTo(FlagChars, MaxFlagLen)
Bases == {<<>>, <<"a">>, <<":">>}
Segments == {<<>>, <<"a">>}
Cfgs ==
  [isNil : {TRUE}, hasInstance : {FALSE}, isStrings : {FALSE},
   instance : {<<>>}]
    \cup [isNil : {FALSE}, hasInstance : {FALSE}, isStrings : {FALSE},
          instance : {<<>>}]
    \cup [isNil : {FALSE}, hasInstance : {TRUE}, isStrings : {FALSE},
          instance : {<<>>}]
    \cup [isNil : {FALSE}, hasInstance : {TRUE}, isStrings : {TRUE},
          instance : SeqsUpTo(Segments, MaxSegments)]

StaticInputs ==
  [fn : {"newHandler"}, base : Bases, instances : Flags]
    \cup [fn : {"StaticProvider.Init"}, cfg : Cfgs]

CallNewHandler ==
  /\ called = ""
  /\ input.fn = "newHandler"
  /\ called' = "newHandler"
  /\ ret' = newHandler(input.base, input.instances)
  /\ UNCHANGED <<input, hvars, pvars, envvars>>

CallStaticInit ==
  /\ called = ""
  /\ input.fn = "StaticProvider.Init"
  /\ called' = "StaticProvider.Init"
  /\ ret' = StaticInit(input.cfg)
  /\ UNCHANGED <<input, hvars, pvars, envvars>>

InitStatic ==
  /\ AtRest
  /\ input \in StaticInputs
  /\ called = ""
  /\ ret = <<>>

NextStatic == CallNewHandler \/ CallStaticInit

SpecStatic == InitStatic /\ [][NextStatic]_vars

\* What the registry was asked to hold: the segments of the configured
\* list, in order
Configured ==
  IF input.fn = "newHandler" THEN Split(input.instances, ",")
  ELSE IF input.cfg.hasInstance /\ input.cfg.isStrings
  THEN input.cfg.instance
  ELSE <<>>

\* An instance as the registry holds it: newHandler keeps the parsed
\* URL, StaticProvider the string
Held(in) == IF input.fn = "newHandler" THEN Parse(in) ELSE in

\* C17: a static registry holds the non-empty segments of its configured
\* list and nothing else, and its construction fails when no segment is
\* left; this holds of newHandler and of StaticProvider.Init alike.
StaticSkipsEmptyAndFailsWhenEmpty ==
  called # "" =>
    LET wanted == NonEmpty(Configured)
    IN  /\ wanted = <<>> => ret.err \/ ret.panic
        /\ ~(ret.err \/ ret.panic) =>
             /\ Len(ret.instance) = Len(wanted)
             /\ \A k \in DOMAIN wanted :
                  ret.instance[k] = Held(wanted[k])

\* ---------------------------------------------------------------------
\* rewriteTwitterURL and the fields of rewrite that it fills.

MaxUrlLen == 5
MaxItems == 2

UrlChars == {"a", ":", "/", "#", "%"}
UrlStrings == SeqsUpTo(UrlChars, MaxUrlLen)

\* Links and ids for the feeds: one that does not parse, an opaque one,
\* one with an authority and a fragment
SampleUrls ==
  {<<"%">>, <<"a", ":", "a">>, <<"/", "/", "a", "/", "a", "#", "a">>}
FeedItems == [Link : SampleUrls, GUID : SampleUrls]
Feeds == [Link : SampleUrls, Items : SeqsUpTo(FeedItems, MaxItems)]

\* The fields of the parsed feed of that rewrite passes through
\* rewriteTwitterURL, in the order it reaches them: the link of the feed,
\* then the link and the GUID of each item
Fields(of) ==
  [k \in 1..(2 * Len(of.Items) + 1) |->
     IF k = 1 THEN of.Link
     ELSE IF k % 2 = 0 THEN of.Items[k \div 2].Link
     ELSE of.Items[k \div 2].GUID]

\* The feed that rewrite hands to the encoder, from the rewritten fields
\* out. No statement between parsing and encoding returns an error but
\* the one that follows rewriteContent, which always returns nil.
Rewritten(of, out) ==
  [err |-> FALSE,
   Link |-> out[1],
   Items |-> [k \in DOMAIN of.Items |->
                [Link |-> out[2 * k], Id |-> out[2 * k + 1]]]]

rewriteFields(of) ==
  Rewritten(of, [k \in DOMAIN Fields(of) |-> rewriteTwitterURL(Fields(of)[k])])

UrlInputs ==
  [fn : {"rewriteTwitterURL"}, orig : UrlStrings]
    \cup [fn : {"rewrite"}, of : Feeds]

CallRewriteTwitterURL ==
  /\ called = ""
  /\ input.fn = "rewriteTwitterURL"
  /\ called' = "rewriteTwitterURL"
  /\ ret' = rewriteTwitterURL(input.orig)
  /\ UNCHANGED <<input, hvars, pvars, envvars>>

CallRewrite ==
  /\ called = ""
  /\ input.fn = "rewrite"
  /\ called' = "rewrite"
  /\ ret' = rewriteFields(input.of)
  /\ UNCHANGED <<input, hvars, pvars, envvars>>

InitUrl ==
  /\ AtRest
  /\ input \in UrlInputs
  /\ called = ""
  /\ ret = <<>>

NextUrl == CallRewriteTwitterURL \/ CallRewrite

SpecUrl == InitUrl /\ [][NextUrl]_vars

\* The emitted value, read as a URL, has scheme https, host twitter.com
\* and no fragment
Canonical(out) ==
  LET url == Parse(out)
  IN  /\ ~url.err
      /\ url.Scheme = Https
      /\ url.Host = TwitterCom
      /\ url.Fragment = <<>>
      /\ ~Contains(out, "#")

\* C18: every link and id that rewrite emits has scheme https, host
\* twitter.com and no fragment. Stated here of the values that url.Parse
\* accepts only, which is less than the claim's "every input value".
EmittedLinksCanonical ==
  /\ called = "rewriteTwitterURL" /\ ~Parse(input.orig).err =>
       Canonical(ret)
  /\ called = "rewrite" =>
       /\ ~Parse(input.of.Link).err => Canonical(ret.Link)
       /\ \A k \in DOMAIN ret.Items :
            /\ ~Parse(input.of.Items[k].Link).err =>
                 Canonical(ret.Items[k].Link)
            /\ ~Parse(input.of.Items[k].GUID).err =>
                 Canonical(ret.Items[k].Id)

\* A field was handled: returned as it was when it does not parse,
\* rewritten to an https URL when it does
Handled(orig, out) ==
  IF Parse(orig).err THEN out = orig
  ELSE HasPrefix(out, Https \o <<":">>)

\* C19: rewriteTwitterURL returns a URL that does not parse unchanged, and
\* a feed holding such a URL is rewritten without error, with every item
\* and every other field still handled.
MalformedReturnedUnchanged ==
  /\ called = "rewriteTwitterURL" => Handled(input.orig, ret)
  /\ called = "rewrite" =>
       /\ ~ret.err
       /\ Len(ret.Items) = Len(input.of.Items)
       /\ Handled(input.of.Link, ret.Link)
       /\ \A k \in DOMAIN ret.Items :
            /\ Handled(input.of.Items[k].Link, ret.Items[k].Link)
            /\ Handled(input.of.Items[k].GUID, ret.Items[k].Id)

\* A feed whose link and first item do not parse was rewritten, and the
\* id of its second item, which follows them, was rewritten to twitter.com
MalformedReturnedUnchangedWitness ==
  /\ called = "rewrite"
  /\ Parse(input.of.Link).err
  /\ Len(input.of.Items) = MaxItems
  /\ Parse(input.of.Items[1].Link).err
  /\ Parse(input.of.Items[1].GUID).err
  /\ ret.Link = input.of.Link
  /\ ret.Items[1].Id = input.of.Items[1].GUID
  /\ ~Parse(input.of.Items[MaxItems].GUID).err
  /\ Canonical(ret.Items[MaxItems].Id)

\* ---------------------------------------------------------------------
\* rewriteContent and its patterns.

\* start, end, scheme, host and slash, the pieces of the patterns
startRe == Alt(<<Bol, Wb>>)
endRe == Alt(<<Eol, Wb>>)
schemeRe ==
  Cat(<<Lit(<<"h", "t", "t", "p">>), Opt(Lit(<<"s">>)), Lit(<<":", "/",
      "/">>)>>)
AlNum == Lower \cup Upper \cup Digit
hostRe ==
  Cat(<<Cls(AlNum), Rep(Cls(AlNum \cup {"-"}), 0), Lit(<<".">>),
        Rep(Cls(AlNum \cup {"-", "."}), 1)>>)
slashRe == Alt(<<Lit(<<"/">>), Lit(<<"%", "2", "F">>)>>)

\* [-_a-zA-Z0-9] and [-_.a-zA-Z0-9]
IdChars == WordChar \cup {"-"}
NameChars == WordChar \cup {"-", "."}

\* The bytes of a string, by value: printable ASCII, newline, tab and
\* carriage return as themselves, every other byte (the backquote
\* among them) by its escape
Bytes ==
  <<"\\x00", "\\x01", "\\x02", "\\x03", "\\x04", "\\x05", "\\x06", "\\x07",
    "\\x08", "\t", "\n", "\\x0b", "\\x0c", "\r", "\\x0e", "\\x0f", "\\x10",
    "\\x11", "\\x12", "\\x13", "\\x14", "\\x15", "\\x16", "\\x17", "\\x18",
    "\\x19", "\\x1a", "\\x1b", "\\x1c", "\\x1d", "\\x1e", "\\x1f", " ", "!",
    "\"", "#", "$", "%", "&", "'", "(", ")", "*", "+", ",", "-", ".", "/",
    "0", "1", "2", "3", "4", "5", "6", "7", "8", "9", ":", ";", "<", "=",
    ">", "?", "@", "A", "B", "C", "D", "E", "F", "G", "H", "I", "J", "K",
    "L", "M", "N", "O", "P", "Q", "R", "S", "T", "U", "V", "W", "X", "Y",
    "Z", "[", "\\", "]", "^", "_", "\\x60", "a", "b", "c", "d", "e", "f",
    "g", "h", "i", "j", "k", "l", "m", "n", "o", "p", "q", "r", "s", "t",
    "u", "v", "w", "x", "y", "z", "{", "|", "}", "~", "\\x7f", "\\x80",
    "\\x81", "\\x82", "\\x83", "\\x84", "\\x85", "\\x86", "\\x87", "\\x88",
    "\\x89", "\\x8a", "\\x8b", "\\x8c", "\\x8d", "\\x8e", "\\x8f", "\\x90",
    "\\x91", "\\x92", "\\x93", "\\x94", "\\x95", "\\x96", "\\x97", "\\x98",
    "\\x99", "\\x9a", "\\x9b", "\\x9c", "\\x9d", "\\x9e", "\\x9f", "\\xa0",
    "\\xa1", "\\xa2", "\\xa3", "\\xa4", "\\xa5", "\\xa6", "\\xa7", "\\xa8",
    "\\xa9", "\\xaa", "\\xab", "\\xac", "\\xad", "\\xae", "\\xaf", "\\xb0",
    "\\xb1", "\\xb2", "\\xb3", "\\xb4", "\\xb5", "\\xb6", "\\xb7", "\\xb8",
    "\\xb9", "\\xba", "\\xbb", "\\xbc", "\\xbd", "\\xbe", "\\xbf", "\\xc0",
    "\\xc1", "\\xc2", "\\xc3", "\\xc4", "\\xc5", "\\xc6", "\\xc7", "\\xc8",
    "\\xc9", "\\xca", "\\xcb", "\\xcc", "\\xcd", "\\xce", "\\xcf", "\\xd0",
    "\\xd1", "\\xd2", "\\xd3", "\\xd4", "\\xd5", "\\xd6", "\\xd7", "\\xd8",
    "\\xd9", "\\xda", "\\xdb", "\\xdc", "\\xdd", "\\xde", "\\xdf", "\\xe0",
    "\\xe1", "\\xe2", "\\xe3", "\\xe4", "\\xe5", "\\xe6", "\\xe7", "\\xe8",
    "\\xe9", "\\xea", "\\xeb", "\\xec", "\\xed", "\\xee", "\\xef", "\\xf0",
    "\\xf1", "\\xf2", "\\xf3", "\\xf4", "\\xf5", "\\xf6", "\\xf7", "\\xf8",
    "\\xf9", "\\xfa", "\\xfb", "\\xfc", "\\xfd", "\\xfe", "\\xff">>

\* . in a pattern: any character but newline
Dot == Cls({Bytes[k] : k \in DOMAIN Bytes} \ {"\n"})

\* base64.URLEncoding: the alphabet of RFC 4648 section 5, padded with =
EncodeURL ==
  <<"A", "B", "C", "D", "E", "F", "G", "H", "I", "J", "K", "L", "M", "N",
    "O", "P", "Q", "R", "S", "T", "U", "V", "W", "X", "Y", "Z", "a", "b",
    "c", "d", "e", "f", "g", "h", "i", "j", "k", "l", "m", "n", "o", "p",
    "q", "r", "s", "t", "u", "v", "w", "x", "y", "z", "0", "1", "2", "3",
    "4", "5", "6", "7", "8", "9", "-", "_">>

B64Value(c) == (CHOOSE k \in DOMAIN EncodeURL : EncodeURL[k] = c) - 1
B64Chars == {EncodeURL[k] : k \in DOMAIN EncodeURL}
Byte(n) == Bytes[n + 1]

\* The bytes of the four characters q, of which the last one or two may
\* be padding
DecodeQuantum(q) ==
  LET v1 == B64Value(q[1])
      v2 == B64Value(q[2])
      v3 == IF q[3] = "=" THEN 0 ELSE B64Value(q[3])
      v4 == IF q[4] = "=" THEN 0 ELSE B64Value(q[4])
      b1 == <<Byte(v1 * 4 + v2 \div 16)>>
      b2 == <<Byte((v2 % 16) * 16 + v3 \div 4)>>
      b3 == <<Byte((v3 % 4) * 64 + v4)>>
  IN  IF q[3] = "=" THEN b1
      ELSE IF q[4] = "=" THEN b1 \o b2
      ELSE b1 \o b2 \o b3

RECURSIVE DecodeQuanta(_)
DecodeQuanta(str) ==
  IF str = <<>> THEN <<>>
  ELSE DecodeQuantum(SubSeq(str, 1, 4)) \o DecodeQuanta(From(str, 5))

\* base64.URLEncoding.DecodeString: quanta of four characters, padding
\* only as the last character or the last two
DecodeString(str) ==
  LET n == Len(str)
      pad == IF n >= 2 /\ str[n] = "=" /\ str[n - 1] = "=" THEN 2
             ELSE IF n >= 1 /\ str[n] = "=" THEN 1
             ELSE 0
      ok == /\ n % 4 = 0
            /\ \A k \in 1..(n - pad) : str[k] \in B64Chars
  IN  IF ok THEN [err |-> FALSE, dec |-> DecodeQuanta(str)]
      ELSE [err |-> TRUE, dec |-> <<>>]

\* The patterns of rewritePatterns, each as its top-level parts, and the
\* parts that are its groups

\* pic/enc/ with a base64-encoded path; groups: start of URL, payload
encRe ==
  [re |->
    <<startRe, Cat(<<schemeRe, hostRe, Lit(<<"/", "p", "i", "c", "/">>)>>),
      Lit(<<"e", "n", "c", "/">>), Rep(Cls(B64Chars \cup {"="}), 1)>>,
   groups |-> <<2, 4>>, fn |-> "encFn"]

\* a tweet; groups: optional scheme, user or i/web, tweet ID
tweetRe ==
  [re |->
    <<startRe, Opt(schemeRe), Cat(<<hostRe, Lit(<<"/">>)>>),
      Alt(<<Rep(Cls(WordChar), 1), Lit(<<"i", "/", "w", "e", "b">>)>>),
      Cat(<<slashRe, Lit(<<"s", "t", "a", "t", "u", "s">>), slashRe>>),
      Rep(Cls(Digit), 1), Opt(Lit(<<"#", "m">>)), endRe>>,
   groups |-> <<2, 4, 6>>, fn |-> "tweetFn"]

\* an image; groups: image ID, extension
imageRe ==
  [re |->
    <<startRe, Cat(<<schemeRe, hostRe, Lit(<<"/", "p", "i", "c">>), slashRe,
      Lit(<<"m", "e", "d", "i", "a">>), slashRe>>), Rep(Cls(IdChars), 1),
      Lit(<<".">>), Alt(<<Lit(<<"j", "p", "g">>), Lit(<<"p", "n", "g">>)>>),
      endRe>>,
   groups |-> <<3, 5>>, fn |-> "imageFn"]

\* a video; group: name and extension
videoRe ==
  [re |->
    <<startRe, Cat(<<schemeRe, hostRe, Lit(<<"/", "p", "i", "c">>), slashRe,
      Lit(<<"v", "i", "d", "e", "o">>), Dot, Lit(<<"t", "w", "i", "m",
      "g">>), Dot, Lit(<<"c", "o", "m">>), slashRe, Lit(<<"t", "w", "e",
      "e", "t", "_", "v", "i", "d", "e", "o">>), slashRe>>),
      Rep(Cls(NameChars), 1), endRe>>,
   groups |-> <<3>>, fn |-> "videoFn"]

\* a video thumbnail; group: name and extension
videoThumbRe ==
  [re |->
    <<startRe, Cat(<<schemeRe, hostRe, Lit(<<"/", "p", "i", "c">>), slashRe,
      Lit(<<"t", "w", "e", "e", "t", "_", "v", "i", "d", "e", "o", "_", "t",
      "h", "u", "m", "b">>), slashRe>>), Rep(Cls(NameChars), 1), endRe>>,
   groups |-> <<3>>, fn |-> "videoThumbFn"]

\* an external video thumbnail; groups: tweet ID, name and extension
extThumbRe ==
  [re |->
    <<startRe, Cat(<<schemeRe, hostRe, Lit(<<"/", "p", "i", "c">>), slashRe,
      Lit(<<"e", "x", "t", "_", "t", "w", "_", "v", "i", "d", "e", "o", "_",
      "t", "h", "u", "m", "b">>), slashRe>>), Rep(Cls(Digit), 1),
      Cat(<<slashRe, Lit(<<"p", "u">>), slashRe, Lit(<<"i", "m", "g">>),
      slashRe>>), Rep(Cls(NameChars), 1), endRe>>,
   groups |-> <<3, 5>>, fn |-> "extThumbFn"]

\* an Invidious watch URL; groups: optional scheme, video ID
watchRe ==
  [re |->
    <<startRe, Opt(schemeRe), Cat(<<hostRe, Lit(<<"/", "w", "a", "t", "c",
      "h", "?", "v", "=">>)>>), Rep(Cls(IdChars), 1), endRe>>,
   groups |-> <<2, 4>>, fn |-> "watchFn"]

\* invidious.snopyta.org without /watch?v=; groups: optional scheme, video ID
snopytaRe ==
  [re |->
    <<startRe, Opt(schemeRe), Lit(<<"i", "n", "v", "i", "d", "i", "o", "u",
      "s", ".", "s", "n", "o", "p", "y", "t", "a", ".", "o", "r", "g",
      "/">>), Rep(Cls(IdChars), 8), endRe>>,
   groups |-> <<2, 4>>, fn |-> "watchFn"]

\* (*Regexp).FindStringSubmatch(o): ms[0] is the match, ms[j] its group
\* j; <<>> for nil
FindStringSubmatch(p, o) ==
  LET b == Find(p.re, o, 1)
  IN  IF b = <<>> THEN <<>>
      ELSE [j \in 0..Len(p.groups) |->
              IF j = 0 THEN SubSeq(o, b[1], b[Len(b)] - 1)
              ELSE SubSeq(o, b[p.groups[j]], b[p.groups[j] + 1] - 1)]

\* "https://" + u when the scheme group matched
WithScheme(ms, u) == IF ms[1] # <<>> THEN <<"h", "t", "t", "p", "s", ":",
    "/", "/">> \o u ELSE u

\* The fn of each pattern
\* encFn returning nothing for a payload that does not decode
encFnDropsOnError(ms) ==
  LET d == DecodeString(ms[2])
  IN  IF d.err THEN <<>> ELSE ms[1] \o d.dec
encFn(ms) ==
  LET d == DecodeString(ms[2])
  IN  IF d.err THEN ms[0] ELSE ms[1] \o d.dec
\* tweetFn putting the scheme before every replacement
tweetFnAlways(ms) ==
  <<"h", "t", "t", "p", "s", ":", "/", "/", "t", "w", "i", "t", "t", "e",
    "r", ".", "c", "o", "m", "/">> \o ms[2]
    \o <<"/", "s", "t", "a", "t", "u", "s", "/">> \o ms[3]
tweetFn(ms) ==
  WithScheme(ms, <<"t", "w", "i", "t", "t", "e", "r", ".", "c", "o", "m",
      "/">> \o ms[2]
                   \o <<"/", "s", "t", "a", "t", "u", "s", "/">> \o ms[3])
imageFn(ms) ==
  <<"h", "t", "t", "p", "s", ":", "/", "/", "p", "b", "s", ".", "t", "w",
      "i", "m", "g", ".", "c", "o", "m", "/", "m", "e", "d", "i", "a",
      "/">> \o ms[1]
    \o <<"?", "f", "o", "r", "m", "a", "t", "=">> \o ms[2]
videoFn(ms) ==
  <<"h", "t", "t", "p", "s", ":", "/", "/", "v", "i", "d", "e", "o", ".",
      "t", "w", "i", "m", "g", ".", "c", "o", "m", "/", "t", "w", "e", "e",
      "t", "_", "v", "i", "d", "e", "o", "/">> \o ms[1]
videoThumbFn(ms) ==
  <<"h", "t", "t", "p", "s", ":", "/", "/", "v", "i", "d", "e", "o", ".",
      "t", "w", "i", "m", "g", ".", "c", "o", "m", "/", "t", "w", "e", "e",
      "t", "_", "v", "i", "d", "e", "o", "_", "t", "h", "u", "m", "b",
      "/">> \o ms[1]
extThumbFn(ms) ==
  <<"h", "t", "t", "p", "s", ":", "/", "/", "p", "b", "s", ".", "t", "w",
      "i", "m", "g", ".", "c", "o", "m", "/", "e", "x", "t", "_", "t", "w",
      "_", "v", "i", "d", "e", "o", "_", "t", "h", "u", "m", "b",
      "/">> \o ms[1]
    \o <<"/", "p", "u", "/", "i", "m", "g", "/">> \o ms[2]
watchFn(ms) ==
  WithScheme(ms, <<"y", "o", "u", "t", "u", "b", "e", ".", "c", "o", "m",
      "/", "w", "a", "t", "c", "h", "?", "v", "=">> \o ms[2])

\* rewritePatterns with the rule of the images ahead of the rule of the
\* encoded paths
rewritePatternsImageFirst ==
  <<imageRe, encRe, tweetRe, videoRe, videoThumbRe, extThumbRe, watchRe,
    snopytaRe>>

rewritePatterns ==
  <<encRe, tweetRe, imageRe, videoRe, videoThumbRe, extThumbRe, watchRe,
    snopytaRe>>

\* rw.fn(ms) of pattern k; a nil ms makes fn panic
Panicked == <<"panic: index out of range">>
ApplyFn(k, ms) ==
  IF ms = <<>> THEN Panicked
  ELSE CASE rewritePatterns[k].fn = "encFn" -> encFn(ms)
         [] rewritePatterns[k].fn = "tweetFn" -> tweetFn(ms)
         [] rewritePatterns[k].fn = "imageFn" -> imageFn(ms)
         [] rewritePatterns[k].fn = "videoFn" -> videoFn(ms)
         [] rewritePatterns[k].fn = "videoThumbFn" -> videoThumbFn(ms)
         [] rewritePatterns[k].fn = "extThumbFn" -> extThumbFn(ms)
         [] rewritePatterns[k].fn = "watchFn" -> watchFn(ms)

RECURSIVE ReplaceFrom(_, _, _)
\* rw.re.ReplaceAllStringFunc(str, ...) from position q on: the matches
\* from left to right, none overlapping another, each replaced by fn of
\* its groups as found in the match alone
ReplaceFrom(k, str, q) ==
  LET b == Find(rewritePatterns[k].re, str, q)
  IN  IF b = <<>> THEN From(str, q)
      ELSE LET o == SubSeq(str, b[1], b[Len(b)] - 1)
           IN  SubSeq(str, q, b[1] - 1)
                 \o ApplyFn(k, FindStringSubmatch(rewritePatterns[k], o))
                 \o ReplaceFrom(k, str, b[Len(b)])

RECURSIVE ApplyPatterns(_, _)
ApplyPatterns(str, k) ==
  IF k > Len(rewritePatterns) THEN str
  ELSE ApplyPatterns(ReplaceFrom(k, str, 1), k + 1)

\* strings.ReplaceAll(str, "\n", "<br>")
RECURSIVE BreakLines(_)
BreakLines(str) ==
  LET k == Index(str, "\n")
  IN  IF k = 0 THEN str
      ELSE SubSeq(str, 1, k - 1) \o <<"<", "b", "r",
          ">">> \o BreakLines(From(str, k + 1))

rewriteContent(str) == BreakLines(ApplyPatterns(str, 1))

\* ---------------------------------------------------------------------
\* rewriteContent applied to a content, then to its own output.

MaxContentParts == 3

\* The pieces contents are put together from: a scheme, a tweet URL,
\* Nitter's fragment, a newline, an encoded image URL, the payload
\* media/X.jpg, that payload encoded once more behind enc/, a space
ContentParts ==
  <<<<"h", "t", "t", "p", "s", ":", "/", "/">>,
    <<"a", ".", "b", "/", "u", "/", "s", "t", "a", "t", "u", "s", "/", "1">>,
    <<"#", "m">>,
    <<"\n">>,
    <<"a", ".", "b", "/", "p", "i", "c", "/", "e", "n", "c", "/">>,
    <<"b", "W", "V", "k", "a", "W", "E", "v", "W", "C", "5", "q", "c", "G", "c", "=">>,
    <<"Z", "W", "5", "j", "L", "2", "J", "X", "V", "m", "t", "h", "V",
      "0", "V", "2", "V", "0", "M", "1", "c", "W", "N", "H", "Y", "z",
      "0", "=">>,
    <<" ">>>>

Contents == Joined(ContentParts, MaxContentParts)

CallRewriteContent ==
  /\ called = ""
  /\ called' = "rewriteContent"
  /\ ret' = [s |-> rewriteContent(input), err |-> FALSE]
  /\ UNCHANGED <<input, hvars, pvars, envvars>>

\* The output of the first call is the content of the second
CallRewriteContentAgain ==
  /\ called = "rewriteContent"
  /\ called' = "rewriteContent of an output"
  /\ input' = ret.s
  /\ ret' = [s |-> rewriteContent(ret.s), err |-> FALSE]
  /\ UNCHANGED <<hvars, pvars, envvars>>

InitContent ==
  /\ AtRest
  /\ input \in Contents
  /\ called = ""
  /\ ret = <<>>

NextContent == CallRewriteContent \/ CallRewriteContentAgain

SpecContent == InitContent /\ [][NextContent]_vars

\* C20: rewriteContent is idempotent on its outputs: applied to a content
\* that is itself an output of rewriteContent, it returns that content.
RewriteContentIdempotent ==
  called = "rewriteContent of an output" => ret.s = input

\* ---------------------------------------------------------------------
\* The rules of rewritePatterns, one by one, on contents put together
\* from tweet URLs, encoded image URLs and account links.

MaxRuleParts == 3

\* The pieces: a tweet URL,
\* a tweet URL without a scheme,
\* Nitter's fragment,
\* a space,
\* an encoded image URL of media/X.jpg,
\* one of media/Y.png,
\* one whose payload is not base64,
\* one whose payload encodes the bytes "><,
\* an account link,
\* a letter
RuleParts ==
  <<<<"h", "t", "t", "p", "s", ":", "/", "/", "a", ".", "b", "/", "u", "/",
      "s", "t", "a", "t", "u", "s", "/", "1">>,
    <<"a", ".", "b", "/", "u", "/", "s", "t", "a", "t", "u", "s", "/", "1">>,
    <<"#", "m">>,
    <<" ">>,
    <<"h", "t", "t", "p", "s", ":", "/", "/", "a", ".", "b", "/", "p", "i",
      "c", "/", "e", "n", "c", "/", "b", "W", "V", "k", "a", "W", "E", "v",
      "W", "C", "5", "q", "c", "G", "c", "=">>,
    <<"h", "t", "t", "p", "s", ":", "/", "/", "a", ".", "b", "/", "p", "i",
      "c", "/", "e", "n", "c", "/", "b", "W", "V", "k", "a", "W", "E", "v",
      "W", "S", "5", "w", "b", "m", "c", "=">>,
    <<"h", "t", "t", "p", "s", ":", "/", "/", "a", ".", "b", "/", "p", "i",
      "c", "/", "e", "n", "c", "/", "b", "W", "V", "k", "a", "Q">>,
    <<"h", "t", "t", "p", "s", ":", "/", "/", "a", ".", "b", "/", "p", "i",
      "c", "/", "e", "n", "c", "/", "I", "j", "4", "8">>,
    <<"h", "t", "t", "p", ":", "/", "/", "a", ".", "b", "/", "N", "A", "S",
      "A">>,
    <<"x">>>>


RuleContents == Joined(RuleParts, MaxRuleParts)

InitRules ==
  /\ AtRest
  /\ input \in RuleContents
  /\ called = ""
  /\ ret = <<>>

NextRules == CallRewriteContent

SpecRules == InitRules /\ [][NextRules]_vars

\* The places of the rules in rewritePatterns
RuleOf(f) == CHOOSE k \in DOMAIN rewritePatterns : rewritePatterns[k].fn = f
encRule == RuleOf("encFn")
tweetRule == RuleOf("tweetFn")
imageRule == RuleOf("imageFn")

RECURSIVE SeenBy(_, _)
\* The content as rule k finds it: the rules before k applied in order
SeenBy(str, k) ==
  IF k = 1 THEN str ELSE ReplaceFrom(k - 1, SeenBy(str, k - 1), 1)

RECURSIVE MatchesFrom(_, _, _)
\* What ReplaceAllStringFunc of rule k does in str from position q on:
\* each match o with its groups ms and the text fn puts in its place,
\* and what follows the match
MatchesFrom(k, str, q) ==
  LET b == Find(rewritePatterns[k].re, str, q)
  IN  IF b = <<>> THEN <<>>
      ELSE LET o == SubSeq(str, b[1], b[Len(b)] - 1)
               ms == FindStringSubmatch(rewritePatterns[k], o)
           IN  <<[o |-> o, ms |-> ms, by |-> ApplyFn(k, ms),
                  after |-> From(str, b[Len(b)])]>>
                 \o MatchesFrom(k, str, b[Len(b)])

\* The matches of rule k in a call of rewriteContent(str)
Matches(k, str) == MatchesFrom(k, SeenBy(str, k), 1)

HasScheme(str) ==
  \/ HasPrefix(str,
      <<"h", "t", "t", "p", ":", "/", "/">>)
  \/ HasPrefix(str,
      <<"h", "t", "t", "p", "s", ":", "/", "/">>)

\* C21: for every match of the status rule, the replacement starts with
\* https:// if and only if the matched text starts with a scheme.
StatusSchemeKept ==
  called = "rewriteContent" =>
    \A j \in DOMAIN Matches(tweetRule, input) :
      LET m == Matches(tweetRule, input)[j]
      IN  HasPrefix(m.by,
      <<"h", "t", "t", "p", "s", ":", "/", "/">>) <=> HasScheme(m.o)

\* A content with a status link that has a scheme and one that has none
StatusSchemeKeptWitness ==
  /\ called = "rewriteContent"
  /\ \E j, k \in DOMAIN Matches(tweetRule, input) :
       /\ HasScheme(Matches(tweetRule, input)[j].o)
       /\ ~HasScheme(Matches(tweetRule, input)[k].o)
  /\ StatusSchemeKept

\* Nitter's fragment marker
Marker == <<"#", "m">>

\* C22: every status link of the content that carries a trailing fragment
\* marker is rewritten to a link without a fragment: neither the
\* replacement nor the text right after it has a "#".
StatusFragmentDropped ==
  called = "rewriteContent" =>
    \A j \in DOMAIN Matches(tweetRule, input) :
      LET m == Matches(tweetRule, input)[j]
      IN  HasSuffix(m.o, Marker) =>
            /\ ~Contains(m.by, "#")
            /\ ~HasPrefix(m.after, <<"#">>)

\* strings.Contains for a substring, and the places where it is found
Places(str, sub) ==
  {k \in 1..(Len(str) - Len(sub) + 1) : SubSeq(str, k, k + Len(sub) - 1) = sub}
ContainsString(str, sub) == Places(str, sub) # {}

\* The payloads media/<id>.<jpg|png>: the id and the extension, <<>> for
\* any other text
MediaPath(dec) ==
  LET pre == <<"m", "e", "d", "i", "a", "/">>
      dot == LastIndex(dec, ".")
      id == SubSeq(dec, Len(pre) + 1, dot - 1)
      ext == From(dec, dot + 1)
  IN  IF /\ HasPrefix(dec, pre)
         /\ dot > Len(pre) + 1
         /\ \A k \in DOMAIN id : id[k] \in IdChars
         /\ ext \in {<<"j", "p", "g">>, <<"p", "n", "g">>}
      THEN <<id, ext>>
      ELSE <<>>

\* The matches of the encoded-path rule whose payload decodes to
\* media/<id>.<jpg|png>
EncodedImages(str) ==
  {j \in DOMAIN Matches(encRule, str) :
     LET d == DecodeString(Matches(encRule, str)[j].ms[2])
     IN  ~d.err /\ MediaPath(d.dec) # <<>>}

\* C23: every /pic/enc/ URL of the content whose payload decodes to
\* media/<id>.<jpg|png> is, after one call of rewriteContent, the URL
\* https://pbs.twimg.com/media/<id>?format=<ext>: the output has that URL
\* once more for each such match, the encoded URL once less, and the
\* decoded URL of the mirror no more often than the content had it.
EncodedImageFullyRewritten ==
  called = "rewriteContent" =>
    \A j \in EncodedImages(input) :
      LET ms == Matches(encRule, input)
          d == DecodeString(ms[j].ms[2])
          same == {k \in EncodedImages(input) : ms[k].o = ms[j].o}
          want == imageFn([k \in 1..2 |-> MediaPath(d.dec)[k]])
          decoded == ms[j].ms[1] \o d.dec
      IN  /\ Cardinality(Places(ret.s, want))
               >= Cardinality(Places(input, want)) + Cardinality(same)
          /\ Cardinality(Places(ret.s, ms[j].o))
               <= Cardinality(Places(input, ms[j].o)) - Cardinality(same)
          /\ Cardinality(Places(ret.s, decoded))
               <= Cardinality(Places(input, decoded))

\* A content with an encoded URL of a jpg and one of a png, both rewritten
EncodedImageFullyRewrittenWitness ==
  /\ called = "rewriteContent"
  /\ \E j, k \in EncodedImages(input) :
       LET dj == DecodeString(Matches(encRule, input)[j].ms[2])
           dk == DecodeString(Matches(encRule, input)[k].ms[2])
       IN  /\ MediaPath(dj.dec)[2] = <<"j", "p", "g">>
           /\ MediaPath(dk.dec)[2] = <<"p", "n", "g">>
  /\ EncodedImageFullyRewritten

\* The matches of the encoded-path rule whose payload does not decode
FailedDecodes(str) ==
  {j \in DOMAIN Matches(encRule, str) :
     DecodeString(Matches(encRule, str)[j].ms[2]).err}

\* C24: when the payload of a match of the encoded-path rule does not
\* decode, the rule puts the match back as it was, rewriteContent returns
\* no error, every other match of that rule and every match of the later
\* rules is replaced by a new text, and the output is the content with
\* all those replacements made.
FailedDecodeLeavesMatchOnly ==
  (called = "rewriteContent" /\ FailedDecodes(input) # {}) =>
    /\ \A j \in FailedDecodes(input) :
         Matches(encRule, input)[j].by = Matches(encRule, input)[j].o
    /\ ~ret.err
    /\ \A k \in DOMAIN rewritePatterns :
         \A j \in DOMAIN Matches(k, input) :
           (k = encRule /\ j \in FailedDecodes(input))
             \/ Matches(k, input)[j].by
                  \notin {Matches(k, input)[j].o, Panicked}
    /\ ret.s = BreakLines(SeenBy(input, Len(rewritePatterns) + 1))

\* A content with a payload that does not decode and one that does, which
\* the rule of the images rewrites after it is decoded
FailedDecodeLeavesMatchOnlyWitness ==
  /\ called = "rewriteContent"
  /\ FailedDecodes(input) # {}
  /\ EncodedImages(input) # {}
  /\ Matches(imageRule, input) # <<>>
  /\ ContainsString(ret.s, Matches(encRule, input)[CHOOSE j \in FailedDecodes(input) : TRUE].o)

\* The characters of a URL path: unreserved, sub-delimiters other than
\* the quote, ":", "@", "/" and the "%" of an escape
PathChars ==
  AlNum \cup {"-", ".", "_", "~", "!", "$", "&", "(", ")", "*", "+", ",",
              ";", "=", ":", "@", "/", "%"}

\* C25: for every match of the encoded-path rule whose payload decodes,
\* the text put in place of the payload is made of URL-path characters
\* only: no quote, no markup, no whitespace.
DecodedPayloadIsPathSegment ==
  called = "rewriteContent" =>
    \A j \in DOMAIN Matches(encRule, input) \ FailedDecodes(input) :
      LET m == Matches(encRule, input)[j]
          dec == From(m.by, Len(m.ms[1]) + 1)
      IN  \A k \in DOMAIN dec : dec[k] \in PathChars

\* An account link of the mirror, as in TestRewriteContent, and the link
\* the test wants in its place
AccountLink ==
  <<"h", "t", "t", "p", ":", "/", "/", "a", ".", "b", "/", "N", "A", "S", "A">>
TwitterAccountLink ==
  <<"h", "t", "t", "p", "s", ":", "/", "/", "t", "w", "i", "t", "t", "e", "r", ".", "c", "o", "m", "/", "N", "A", "S", "A">>

\* C26: a link of the mirror that is not a status link, such as an account
\* link, is rewritten to https://twitter.com with the same path: where the
\* content has the account link of the mirror as a word of its own, the
\* output has the link on twitter.com and the link of the mirror no more.
AccountLinkRewritten ==
  called = "rewriteContent" =>
    \A p \in Places(input, AccountLink) :
      (/\ p = 1 \/ input[p - 1] \notin WordChar
       /\ p + Len(AccountLink) > Len(input)
            \/ input[p + Len(AccountLink)] \notin WordChar)
        => /\ ContainsString(ret.s, TwitterAccountLink)
           /\ Cardinality(Places(ret.s, AccountLink))
                < Cardinality(Places(input, AccountLink))

\* ---------------------------------------------------------------------
\* rewriteIconURL applied to the URL of a feed's image.

\* iconRegexp; groups: ID, then ID, size and extension
iconRegexp ==
  [re |->
    <<Bol, Cat(<<schemeRe, hostRe, Lit(<<"/", "p", "i", "c">>), slashRe,
      Lit(<<"p", "r", "o", "f", "i", "l", "e", "_", "i", "m", "a", "g", "e", "s">>),
      slashRe>>), Rep(Cls(Digit), 1), slashRe, Rep(Cls(NameChars), 1), Eol>>,
   groups |-> <<3, 5>>]

\* The profile image on pbs.twimg.com
TwitterIcon(id, name) ==
  <<"h", "t", "t", "p", "s", ":", "/", "/", "p", "b", "s", ".", "t", "w", "i", "m", "g", ".", "c", "o", "m", "/", "p", "r", "o", "f", "i", "l", "e", "_", "i", "m", "a", "g", "e", "s", "/">>
    \o id \o <<"/">> \o name

rewriteIconURL(u) ==
  LET ms == FindStringSubmatch(iconRegexp, u)
  IN  IF ms = <<>> THEN u ELSE TwitterIcon(ms[1], ms[2])

\* The separators Nitter writes, the segment some mirrors put after /pic,
\* and the texts tried as ID, as name, and before and after the URL
Slashes == {<<"/">>, <<"%", "2", "F">>}
PbsSegments == {<<>>, <<"p", "b", "s", ".", "t", "w", "i", "m", "g", ".", "c", "o", "m">>}
IconIds == {<<"1", "2">>, <<"a">>}
IconNames == {<<"n", ".", "j", "p", "g">>, <<"n", "?", "j">>}
Around == {<<>>, <<"\n">>}

\* The profile image URL of a mirror
MirrorIcon(a, seg, b, id, c, name) ==
  <<"h", "t", "t", "p", ":", "/", "/", "a", ".", "b", "/", "p", "i", "c">>
    \o a \o (IF seg = <<>> THEN <<>> ELSE seg \o a)
    \o <<"p", "r", "o", "f", "i", "l", "e", "_", "i", "m", "a", "g", "e", "s">>
    \o b \o id \o c \o name

IconUrls ==
  {pre \o MirrorIcon(a, seg, b, id, c, name) \o post :
     pre \in Around, post \in Around, a \in Slashes, b \in Slashes,
     c \in Slashes, seg \in PbsSegments, id \in IconIds, name \in IconNames}

CallRewriteIconURL ==
  /\ called = ""
  /\ called' = "rewriteIconURL"
  /\ ret' = rewriteIconURL(input)
  /\ UNCHANGED <<input, hvars, pvars, envvars>>

InitIcon ==
  /\ AtRest
  /\ input \in IconUrls
  /\ called = ""
  /\ ret = <<>>

NextIcon == CallRewriteIconURL

SpecIcon == InitIcon /\ [][NextIcon]_vars

\* The texts that are an ID and a name
IsIconId(id) == id # <<>> /\ \A k \in DOMAIN id : id[k] \in Digit
IsIconName(name) == name # <<>> /\ \A k \in DOMAIN name : name[k] \in NameChars

\* The profile image URLs of a mirror, whole
IsMirrorIcon(u) ==
  \E a, b, c \in Slashes, seg \in PbsSegments, id \in IconIds,
     name \in IconNames :
    /\ IsIconId(id) /\ IsIconName(name)
    /\ u = MirrorIcon(a, seg, b, id, c, name)

\* C27: rewriteIconURL maps every profile image URL of a mirror, with / or
\* %2F between its parts and with or without a pbs.twimg.com segment after
\* /pic, to https://pbs.twimg.com/profile_images/<id>/<name>, and returns
\* any text that is not such a URL as a whole unchanged.
IconMappedElseUnchanged ==
  called = "rewriteIconURL" =>
    /\ \A a, b, c \in Slashes, seg \in PbsSegments, id \in IconIds,
          name \in IconNames :
         (/\ IsIconId(id) /\ IsIconName(name)
          /\ input = MirrorIcon(a, seg, b, id, c, name))
           => ret = TwitterIcon(id, name)
    /\ ~IsMirrorIcon(input) => ret = input

(***************************************************************************)
(* The rotation cursor hnd.start (Spec).                                   *)
(***************************************************************************)

\* The requests that passed the checks of ServeHTTP and are past the
\* advance of the cursor (with cycling) or the place it would have had
PastAdvance ==
  {r \in Requests : pc[r] = "loop" \/ (pc[r] = "done" /\ ~ClientError(r))}

\* C28: with cycling enabled no advance of the cursor is lost: whatever the
\* interleaving, when k requests that passed validation have made their
\* advance the cursor is k mod N.
NoAdvanceLost ==
  cycle => start = Cardinality(PastAdvance) % N

\* Two requests read the same value of the cursor before either advanced
\* it, and both advances are in the cursor.
NoAdvanceLostWitness ==
  /\ cycle
  /\ N >= 3
  /\ \E q, r \in PastAdvance : q # r /\ lstart[q] = lstart[r]
  /\ start = 2

\* C29: in every reachable state the list in use is not empty (no modulo
\* by zero) and the cursor, the starting index of every request and every
\* list index a pass uses or has used lie in 0..N-1.
IndicesInRange ==
  /\ N > 0
  /\ start \in 0..(N - 1)
  /\ \A r \in Requests :
       /\ lstart[r] \in 0..(N - 1)
       /\ (pc[r] = "loop" /\ LoopCond(i[r], N)) =>
            InstanceIndex(lstart[r], i[r], N) - 1 \in 0..(N - 1)
       /\ \A k \in DOMAIN attempts[r] :
            /\ InstanceIndex(lstart[r], k - 1, N) - 1 \in 0..(N - 1)
            /\ attempts[r][k].inst = instances[InstanceIndex(lstart[r], k - 1, N)]

\* The cursor has wrapped to 0, and a pass that started at the last
\* instance has gone on to the first.
IndicesInRangeWitness ==
  /\ cycle
  /\ N = 2
  /\ start = 0
  /\ Cardinality(PastAdvance) = 2
  /\ \E r \in Requests : lstart[r] = N - 1 /\ Len(attempts[r]) = N

\* C30: with cycling disabled the cursor is never written: no step changes
\* it, it is 0 after any sequence of requests, and every pass starts at
\* the first instance of the list.
CursorFixedWithoutCycle ==
  ~cycle =>
    /\ start = 0
    /\ \A r \in Requests :
         /\ lstart[r] = 0
         /\ pc[r] \notin {"lock", "advance"}
         /\ attempts[r] # <<>> => attempts[r][1].inst = instances[1]

\* Without cycling every request has made its pass over two or more
\* instances, the first of them first, and the cursor is still 0.
CursorFixedWithoutCycleWitness ==
  /\ ~cycle
  /\ N >= 2
  /\ start = 0
  /\ \A r \in Requests :
       /\ pc[r] = "done"
       /\ Len(attempts[r]) >= 2
       /\ attempts[r][1].inst = instances[1]

(***************************************************************************)
(* The response of a request over its attempts (Spec).                     *)
(***************************************************************************)

\* The chunks of feed bytes in the response of r
FeedChunks(r) ==
  {k \in DOMAIN w[r].body : w[r].body[k] \in {"feed", "partial"}}

\* C31: within one request feed bytes are written by at most one attempt:
\* an attempt counted as failed has written nothing, so the response never
\* holds a part of a feed from a failed attempt nor two bodies.
OneAttemptWritesFeed ==
  \A r \in Requests :
    /\ Cardinality(FeedChunks(r)) <= 1
    /\ Failed(r) # {} => \A k \in DOMAIN w[r].body : w[r].body[k] # "partial"

(***************************************************************************)
(* The refresh and the re-probe pass (SpecRefresh, SpecWiki).              *)
(***************************************************************************)

\* The row goroutines that hold rw.Lock() for their append
Appending == {n \in Rows : gpc[n] = "append"}

\* C32: a refresh publishes its snapshot only after every goroutine it
\* started is through with its probe, its append and wg.Done(); the
\* appends exclude each other, and the snapshot published holds exactly one
\* entry for each row that yielded a host, none lost and none twice.
PublishedAfterAllProbes ==
  /\ Cardinality(Appending) <= 1
  /\ Publishing =>
       /\ spawned = nrows
       /\ \A n \in 1..nrows : gpc[n] \in {"recv", "done"}
       /\ ResultHolds(Yielded)

\* A refresh of a page of two or more rows, all of which yielded a host,
\* is at the assignment of p.hosts.
PublishedAfterAllProbesWitness ==
  /\ Publishing
  /\ nrows >= 2
  /\ Yielded = 1..nrows
  /\ Len(heap[gen]) = nrows

\* C33: a refresh that cannot build a list (the page is not fetched, not
\* decoded, not parsed, not queried, or has no row) returns with the
\* previous snapshot as it was: p.hosts and the hosts it lists are the same
\* after the call as before, and never an empty list in their place.
FailedRefreshKeepsSnapshot ==
  [][(rpc = "sleep" /\ rpc' = "sleep" /\ gen' = gen + 1) =>
       (hosts' = hosts /\ heap' = heap)]_vars

\* The first refresh published a list with a host, the second could not
\* build one, and p.hosts is still the list of the first.
FailedRefreshKeepsSnapshotWitness ==
  /\ gen = 2
  /\ rpc = "sleep"
  /\ hosts.len >= 1
  /\ hosts = [ptr |-> 1, len |-> Len(heap[1])]

ActiveNow ==
  IF hosts.len <= Len(heap[hosts.ptr])
    THEN LET alive == SelectSeq(SubSeq(heap[hosts.ptr], 1, hosts.len),
                                LAMBDA h : h.status)
         IN  [k \in 1..Len(alive) |-> alive[k].url]
    ELSE <<>>

\* C35: GetActiveInstances returns exactly the instances of GetAllInstances
\* whose alive flag is true, in the same order: the list a call returns is
\* the list of the hosts of p.hosts that are alive in the state in which it
\* returns.
ActiveIsAliveOfAll ==
  [][\A r \in Readers :
       (rdpc[r] \in {"idle", "active"} /\ rdpc'[r] = "select") =>
         rdactive'[r] = ActiveNow']_vars

\* C36: a failover pass never modifies the instance list or an instance
\* of it: no step of ServeHTTP, fetch included, changes hnd.instances, so
\* after any sequence of requests the list is the one newHandler built.
InstancesNeverModified ==
  [][instances' = instances]_vars

\* Every request has been through a pass that fetched from each of two or
\* more instances, and the list is as it was built.
InstancesNeverModifiedWitness ==
  /\ N >= 2
  /\ \A r \in Requests : pc[r] = "done" /\ Len(attempts[r]) = N
  /\ instances = [k \in 1..N |-> k]

(***************************************************************************)
(* The locks of the process: hnd.mu of the handler and the rw of a         *)
(* refresh.  The handler of main.go and the provider share no variable,    *)
(* so each is followed while the other is at rest.                         *)
(***************************************************************************)
NextLocks ==
  \/ (rpc = "sleep" /\ gen = 0) /\ Next
  \/ (\A r \in Requests : pc[r] = "idle") /\ NextRefresh

SpecLocks == Init /\ [][NextLocks]_vars

\* C37: no lock is held across an outbound call: the request that holds
\* hnd.mu is at the advance of the cursor and has released it before its
\* first fetch, and the goroutine that holds rw is at its append, after its
\* probe has returned; the refresh itself holds rw for the assignment of
\* p.hosts only.
NoLockAcrossIO ==
  /\ \A r \in Requests :
       /\ mu = r => pc[r] = "advance"
       /\ pc[r] = "loop" => mu # r
  /\ \A n \in Rows :
       /\ rw = n => gpc[n] = "append"
       /\ gpc[n] \in {"node2host", "probe"} => rw # n
  /\ rw = -1 => Publishing
  /\ rw \in {-1, 0} \cup Rows

\* A request is in its pass and has fetched from an instance, without the
\* lock, while another request holds the lock for its advance.
NoLockAcrossIOWitness ==
  \E q, r \in Requests :
    /\ q # r
    /\ mu = q
    /\ pc[q] = "advance"
    /\ pc[r] = "loop"
    /\ attempts[r] # <<>>

(***************************************************************************)
(* The authors of the items in rewrite (SpecAuthors)                       *)
(***************************************************************************)
\* oi.Author and oi.DublinCoreExt are pointers: nil, or a value
NilPerson == [nil |-> TRUE, Name |-> ""]
Persons == {NilPerson} \cup [nil : {FALSE}, Name : {"", "u"}]
NilDublinCore == [nil |-> TRUE, Creator |-> <<>>]
DublinCores == {NilDublinCore} \cup [nil : {FALSE}, Creator : {<<>>, <<"v">>}]
AuthorItems == [Author : Persons, DublinCoreExt : DublinCores]

\* item.Author after the if / else if of rewrite: nil when neither branch
\* is taken
itemAuthor(oi) ==
  IF ~oi.Author.nil /\ oi.Author.Name # ""
    THEN [nil |-> FALSE, Name |-> oi.Author.Name]
  ELSE IF ~oi.DublinCoreExt.nil /\ Len(oi.DublinCoreExt.Creator) > 0
    THEN [nil |-> FALSE, Name |-> oi.DublinCoreExt.Creator[1]]
  ELSE NilPerson

\* The loop of rewrite over of.Items from item k on: out holds the
\* authors of the items added to the feed, authorCnt the count by name.
\* authorCnt[item.Author.Name] += 1 reads through item.Author, so a nil
\* item.Author ends the loop, and the handler, with a runtime panic.
RECURSIVE rewriteAuthors(_, _, _, _)
rewriteAuthors(items, k, out, authorCnt) ==
  IF k > Len(items)
    THEN [panic |-> FALSE, Items |-> out, authorCnt |-> authorCnt]
  ELSE LET author == itemAuthor(items[k])
       IN IF author.nil
            THEN [panic |-> TRUE, Items |-> out, authorCnt |-> authorCnt]
          ELSE rewriteAuthors(items, k + 1, Append(out, author),
                 [authorCnt EXCEPT ![author.Name] = @ + 1])

CallRewriteAuthors ==
  /\ called = ""
  /\ called' = "rewrite"
  /\ ret' = rewriteAuthors(input, 1, <<>>, [n \in {"u", "v"} |-> 0])
  /\ UNCHANGED <<input, hvars, pvars, envvars>>

InitAuthors ==
  /\ AtRest
  /\ input \in SeqsUpTo(AuthorItems, MaxItems)
  /\ called = ""
  /\ ret = <<>>

NextAuthors == CallRewriteAuthors

SpecAuthors == InitAuthors /\ [][NextAuthors]_vars

\* The parsed item has neither an author name nor a dc:creator
Authorless(oi) ==
  /\ oi.Author.nil \/ oi.Author.Name = ""
  /\ oi.DublinCoreExt.nil \/ Len(oi.DublinCoreExt.Creator) = 0

\* C38: a parsed feed with an item that has neither an author name nor a
\* dc:creator is rewritten without failure: rewrite reaches its end, every
\* item is in the feed, and the item without a name has no author.
AuthorlessItemEmitted ==
  (called = "rewrite" /\ \E k \in DOMAIN input : Authorless(input[k])) =>
    /\ ~ret.panic
    /\ Len(ret.Items) = Len(input)
    /\ \A k \in DOMAIN input : Authorless(input[k]) => ret.Items[k].nil

(***************************************************************************)
(* The final outcome of a request (Spec)                                   *)
(***************************************************************************)
\* The responses the specification allows at the end of a request: status
\* 200 with one feed, or one error status with its text
FinalOutcomes ==
  {[status |-> StatusOK, body |-> <<"feed">>]}
    \cup {[status |-> code, body |-> <<"error">>] :
            code \in {StatusBadRequest, StatusNotFound,
                      StatusMethodNotAllowed, StatusInternalServerError}}

\* C39: a request that has ended has exactly one final outcome among
\* success (200 with a feed), 400, 404, 405 and 500: never a feed body
\* together with an error, and never no response.
OneFinalOutcome ==
  \A r \in Requests : pc[r] = "done" => w[r] \in FinalOutcomes
====
